---------------------------- MODULE Spec2Model ----------------------------
(***************************************************************************)
(* AirMon: the wireless device manager (device_manager.py) over its three  *)
(* category detectors (detectors.py) and the device record (models.py).    *)
(*                                                                         *)
(* Spec     the manager's life: observers are registered, scan_devices     *)
(*          runs step by step (clear, one detect_devices per detector,     *)
(*          one call per observer, return), and devices of the live        *)
(*          collection are enabled and disabled between scans.             *)
(* FairSpec Spec with a scan that has started being run to its end.        *)
(* SpecDev  enable_device / disable_device / can_manage_device applied to  *)
(*          a device record the caller holds, of any type and status.      *)
(* SpecSwitch, SpecQuery, SpecProbe, SpecClassify, SpecUSB, SpecProfiler:  *)
(*          the detectors' calls, parsers and classifiers, each over the   *)
(*          answers of the operating system it reads.                      *)
(* SpecOverlap  scan_devices() calls of two threads, step by step.         *)
(* SpecMonitor  the SystemMonitor (system_monitor.py) started and stopped, *)
(*          with its loop threads.                                         *)
(***************************************************************************)
EXTENDS Integers, Sequences, FiniteSets, TLC

\* ------------------------------------------------------------------ bounds

\* The most devices one scan gathers in the model, over its three detectors.
MaxDevices == 3
\* The most observers registered with add_scan_callback in the model.
MaxCallbacks == 2
\* The most devices the operating system shows to one scan in SpecQuery.
MaxProbed == 3
\* The most lines a command-line tool writes in SpecProbe.
MaxLines == 2
\* The most devices a try block gathers before it ends in SpecProbe.
MaxGathered == 2
\* The most words of a device name handed to a classifier in SpecClassify.
MaxWords == 2
\* The most devices a USB enumeration gives in SpecUSB.
MaxEnumerated == 2
\* The most lines of system_profiler's output in SpecProfiler, besides the
\* MaxPadding lines put between two of them.
MaxProfiled == 3
MaxPadding == 5
\* The most devices one detect_devices() call gives in SpecOverlap.
MaxFound == 1
\* The most monitoring threads start_monitoring creates in SpecMonitor.
MaxLoops == 2

\* ------------------------------------------------------------ models.py

None == "None"

BLUETOOTH == "Bluetooth"
RF_DONGLE == "RF Dongle"
WIFI_ADAPTER == "WiFi Adapter"
WIRELESS_AUDIO == "Wireless Audio"
UNKNOWN_WIRELESS == "Unknown Wireless"

DeviceType == {BLUETOOTH, RF_DONGLE, WIFI_ADAPTER, WIRELESS_AUDIO, UNKNOWN_WIRELESS}

CONNECTED == "Connected"
DISCONNECTED == "Disconnected"
PAIRED == "Paired"
DISCOVERABLE == "Discoverable"
\* DeviceStatus.ENABLED (ENABLED is a TLA+ keyword)
ENABLED_STATUS == "Enabled"
DISABLED == "Disabled"
UNKNOWN == "Unknown"

DeviceStatus == {CONNECTED, DISCONNECTED, PAIRED, DISCOVERABLE, ENABLED_STATUS, DISABLED, UNKNOWN}

\* The dataclass WirelessDevice: the three required fields, then the optional
\* ones with their defaults (battery_level and signal_strength are never set
\* by any detector and stay None).
WirelessDevice(name, device_type, interface, mac_address, status, vendor_id, product_id, additional_info) ==
    [name |-> name, device_type |-> device_type, interface |-> interface,
     mac_address |-> mac_address, status |-> status,
     vendor_id |-> vendor_id, product_id |-> product_id,
     battery_level |-> None, signal_strength |-> None,
     additional_info |-> additional_info]

\* platform.system() of the running process.
Platforms == {"Linux", "Windows", "Darwin", "Other"}

\* ----------------------------------------------------------- detectors.py

\* Fault seeded in WirelessDeviceManager.__init__: the Network detector is
\* listed before the USB detector.
detectors_network_first ==
    <<"BluetoothDetector", "NetworkWirelessDetector", "USBWirelessDetector">>

\* WirelessDeviceManager.detectors, fixed at construction.
detectors == <<"BluetoothDetector", "USBWirelessDetector", "NetworkWirelessDetector">>

\* The records BluetoothDetector.detect_devices() builds, per platform.
BluetoothEmits(p) ==
    CASE p = "Linux" ->
           {WirelessDevice("hci0", BLUETOOTH, "Bluetooth Controller", "AA:BB:CC:DD:EE:FF", ENABLED_STATUS, None, None, "{}"),
            WirelessDevice("MyPhone", BLUETOOTH, "Bluetooth Device", "11:22:33:44:55:66", PAIRED, None, None, "{}")}
      [] p = "Windows" ->
           {WirelessDevice("Bluetooth Radio", BLUETOOTH, "Bluetooth", None, ENABLED_STATUS, None, None, "wmi"),
            WirelessDevice("Bluetooth Radio", BLUETOOTH, "Bluetooth", None, DISABLED, None, None, "wmi")}
      [] p = "Darwin" ->
           {WirelessDevice("Bluetooth Device", BLUETOOTH, "Bluetooth", "AA:BB:CC:DD:EE:FF", CONNECTED, None, None, "{}")}
      [] OTHER -> {}

\* Records USBWirelessDetector.detect_devices() builds on its structured path
\* (any platform): a classified device, status Connected.
USBEmits(p) ==
    {WirelessDevice("Logitech Unifying Receiver", RF_DONGLE, "USB (Bus 1, Device 4)", None, CONNECTED, "046d", "c52b", "pyusb"),
     WirelessDevice("Realtek 802.11n WLAN Adapter", WIFI_ADAPTER, "USB (Bus 1, Device 5)", None, CONNECTED, "0bda", "8176", "pyusb")}

\* Records NetworkWirelessDetector.detect_devices() builds on its structured
\* path (any platform): status from the interface's isup statistic.
NetworkEmits(p) ==
    {WirelessDevice("Wireless Interface wlan0", WIFI_ADAPTER, "wlan0", "AA:BB:CC:DD:EE:FF", ENABLED_STATUS, None, None, "psutil")}

Emits(det, p) ==
    CASE det = "BluetoothDetector" -> BluetoothEmits(p)
      [] det = "USBWirelessDetector" -> USBEmits(p)
      [] det = "NetworkWirelessDetector" -> NetworkEmits(p)

SeqsUpTo(S, n) == UNION {[1..m -> S] : m \in 0..n}

\* What one detect_devices() call can do: return a list (of at most room
\* devices), or raise.
DetectOutcomes(det, p, room) ==
    {[raised |-> TRUE, out |-> <<>>]}
      \cup {[raised |-> FALSE, out |-> s] : s \in SeqsUpTo(Emits(det, p), room)}

\* BluetoothDetector.can_manage_device
BluetoothCanManage(d) == d.device_type = BLUETOOTH

\* Fault seeded in USBWirelessDetector.can_manage_device: the WiFi adapter
\* type is left out of the list.
USBCanManage_dongle_only(d) == d.device_type \in {RF_DONGLE}

\* USBWirelessDetector.can_manage_device
USBCanManage(d) == d.device_type \in {RF_DONGLE, WIFI_ADAPTER}

\* NetworkWirelessDetector.can_manage_device
NetworkCanManage(d) == d.device_type = WIFI_ADAPTER

\* detector.can_manage_device(device), dispatched on the detector's class.
DetCanManage(det, d) ==
    CASE det = "BluetoothDetector" -> BluetoothCanManage(d)
      [] det = "USBWirelessDetector" -> USBCanManage(d)
      [] det = "NetworkWirelessDetector" -> NetworkCanManage(d)

\* BluetoothDetector.enable_device: on Linux the bluetoothctl subprocess is
\* run and True returned unless the run itself raises (osRaises: tool missing,
\* timeout); False on every other platform.
Bluetooth_enable_device(d, p, osRaises) == p = "Linux" /\ ~osRaises

\* BluetoothDetector.disable_device
Bluetooth_disable_device(d, p, osRaises) == p = "Linux" /\ ~osRaises

\* USBWirelessDetector.enable_device
USB_enable_device(d, p, osRaises) == FALSE

\* USBWirelessDetector.disable_device
USB_disable_device(d, p, osRaises) == FALSE

\* NetworkWirelessDetector.enable_device
Network_enable_device(d, p, osRaises) == p \in {"Linux", "Windows"} /\ ~osRaises

\* NetworkWirelessDetector.disable_device
Network_disable_device(d, p, osRaises) == p \in {"Linux", "Windows"} /\ ~osRaises

\* detector.enable_device(device), dispatched on the detector's class.
DetEnable(det, d, p, osRaises) ==
    CASE det = "BluetoothDetector" -> Bluetooth_enable_device(d, p, osRaises)
      [] det = "USBWirelessDetector" -> USB_enable_device(d, p, osRaises)
      [] det = "NetworkWirelessDetector" -> Network_enable_device(d, p, osRaises)

\* detector.disable_device(device), dispatched on the detector's class.
DetDisable(det, d, p, osRaises) ==
    CASE det = "BluetoothDetector" -> Bluetooth_disable_device(d, p, osRaises)
      [] det = "USBWirelessDetector" -> USB_disable_device(d, p, osRaises)
      [] det = "NetworkWirelessDetector" -> Network_disable_device(d, p, osRaises)

\* ------------------------------------- detectors.py: the str operations used

CharAt(s, i) == SubSeq(s, i, i)

\* What str.split() without an argument and str.strip() take as whitespace.
Whitespace == {" ", "\t", "\n", "\r"}

UpperCase == "ABCDEFGHIJKLMNOPQRSTUVWXYZ"
LowerCase == "abcdefghijklmnopqrstuvwxyz"

\* c.lower() for one character: the letters A-Z become a-z, every other
\* character stays.
lower_char(c) ==
    LET up == {k \in 1..Len(UpperCase) : CharAt(UpperCase, k) = c}
    IN  IF up = {} THEN c ELSE CharAt(LowerCase, CHOOSE k \in up : TRUE)

\* s.lower(), character by character, for the characters from to to.
RECURSIVE lower_range(_, _, _)
lower_range(s, from, to) ==
    IF from > to THEN ""
    ELSE IF from = to THEN lower_char(CharAt(s, from))
         ELSE LET mid == (from + to) \div 2
              IN  lower_range(s, from, mid) \o lower_range(s, mid + 1, to)

lower(s) == lower_range(s, 1, Len(s))

\* term in s
contains(s, term) ==
    \E i \in 1..(Len(s) - Len(term) + 1) : SubSeq(s, i, i + Len(term) - 1) = term

\* any(term in s for term in terms)
contains_any(s, terms) == \E term \in terms : contains(s, term)

\* s.startswith(prefix)
startswith(s, prefix) == Len(s) >= Len(prefix) /\ SubSeq(s, 1, Len(prefix)) = prefix

\* s.strip()
strip(s) ==
    LET kept == {i \in 1..Len(s) : CharAt(s, i) \notin Whitespace}
    IN  IF kept = {} THEN ""
        ELSE SubSeq(s, CHOOSE i \in kept : \A j \in kept : i <= j,
                       CHOOSE i \in kept : \A j \in kept : i >= j)

\* s.rstrip(chars)
RECURSIVE rstrip(_, _)
rstrip(s, chars) ==
    IF Len(s) > 0 /\ CharAt(s, Len(s)) \in chars
    THEN rstrip(SubSeq(s, 1, Len(s) - 1), chars)
    ELSE s

\* The k-th smallest of a set of positions.
Nth(positions, k) ==
    CHOOSE i \in positions : Cardinality({j \in positions : j <= i}) = k

\* s.split(sep) for a separator of one character: the pieces between the
\* separators, empty ones included.
split(s, sep) ==
    LET at == {i \in 1..Len(s) : CharAt(s, i) = sep}
        cut(k) == IF k = 0 THEN 0
                  ELSE IF k > Cardinality(at) THEN Len(s) + 1
                  ELSE Nth(at, k)
    IN  [k \in 1..(Cardinality(at) + 1) |-> SubSeq(s, cut(k - 1) + 1, cut(k) - 1)]

\* s.split(): the runs of characters that are not whitespace.
split_whitespace(s) ==
    LET inked(i) == i >= 1 /\ i <= Len(s) /\ CharAt(s, i) \notin Whitespace
        starts == {i \in 1..Len(s) : inked(i) /\ ~inked(i - 1)}
        ends == {i \in 1..Len(s) : inked(i) /\ ~inked(i + 1)}
    IN  [k \in 1..Cardinality(starts) |-> SubSeq(s, Nth(starts, k), Nth(ends, k))]

\* sep.join(parts)
RECURSIVE join(_, _)
join(sep, parts) ==
    IF parts = <<>> THEN ""
    ELSE IF Len(parts) = 1 THEN parts[1]
         ELSE parts[1] \o sep \o join(sep, Tail(parts))

\* ------------------------------------ detectors.py: calls and their results

\* subprocess.run(...) as the operating system decides it: the call raises
\* (tool missing, TimeoutExpired), or completes with an exit status and the
\* text it wrote.  lines is the text line by line as the tool composed it.
RunRaised == [raised |-> TRUE, returncode |-> None, stdout |-> "", lines |-> <<>>]

\* A line as a tool writes it: leading whitespace, then tokens with sep
\* between them.
TextOf(line) == line.lead \o join(line.sep, line.tokens)

RECURSIVE Stdout(_)
Stdout(lines) ==
    IF lines = <<>> THEN "" ELSE TextOf(Head(lines)) \o "\n" \o Stdout(Tail(lines))

Completed(returncode, lines) ==
    [raised |-> FALSE, returncode |-> returncode, stdout |-> Stdout(lines), lines |-> lines]

\* How a call of a detector method ends: it returns a list, or an exception
\* leaves it.
Return(list) == [raised |-> FALSE, out |-> list]
Raise == [raised |-> TRUE, out |-> <<>>]

\* How a try block ends: by running to its end or by an exception, with the
\* local list `devices` as it is then.
BlockDone(list) == [raised |-> FALSE, devices |-> list]
BlockRaised(list) == [raised |-> TRUE, devices |-> list]

\* How an enable_device/disable_device call of a detector ends: what it
\* returns (or that an exception leaves it), the commands it handed to
\* subprocess.run, and the device record as the call leaves it.
Switched(result, invoked, d) == [result |-> result, invoked |-> invoked, device |-> d]

\* ------------------------- detectors.py: enable_device and disable_device
\* run is what subprocess.run does with the command when it is reached.

\* BluetoothDetector.enable_device: `bluetoothctl power on` on Linux and True
\* once the run is back, whatever its exit status; the except clause passes
\* and False is returned; False on the other platforms.
BluetoothDetector_enable_device(d, p, run) ==
    IF p = "Linux"
    THEN LET command == <<"bluetoothctl", "power", "on">>
         IN  IF run.raised THEN Switched(Return(FALSE), <<command>>, d)
             ELSE Switched(Return(TRUE), <<command>>, d)
    ELSE Switched(Return(FALSE), <<>>, d)

\* BluetoothDetector.disable_device
BluetoothDetector_disable_device(d, p, run) ==
    IF p = "Linux"
    THEN LET command == <<"bluetoothctl", "power", "off">>
         IN  IF run.raised THEN Switched(Return(FALSE), <<command>>, d)
             ELSE Switched(Return(TRUE), <<command>>, d)
    ELSE Switched(Return(FALSE), <<>>, d)

\* Fault seeded in USBWirelessDetector.enable_device: the device is switched
\* the way a network interface is.
USBWirelessDetector_enable_device_switches(d, p, run) ==
    IF p = "Linux"
    THEN LET command == <<"ip", "link", "set", d.interface, "up">>
         IN  IF run.raised THEN Switched(Return(FALSE), <<command>>, d)
             ELSE Switched(Return(TRUE), <<command>>, d)
    ELSE Switched(Return(FALSE), <<>>, d)

\* USBWirelessDetector.enable_device: return False.
USBWirelessDetector_enable_device(d, p, run) == Switched(Return(FALSE), <<>>, d)

\* USBWirelessDetector.disable_device: return False.
USBWirelessDetector_disable_device(d, p, run) == Switched(Return(FALSE), <<>>, d)

\* device.additional_info.get("interface_name", device.interface): the one
\* builder that stores an interface_name, _get_interface_info, stores the
\* value it also stores as interface.
interface_name_of(d) == d.interface

\* Fault seeded in NetworkWirelessDetector.enable_device: True only for exit
\* status 0.
NetworkWirelessDetector_enable_device_checks_status(d, p, run) ==
    LET interface_name == interface_name_of(d)
    IN  CASE p = "Linux" ->
               LET command == <<"ip", "link", "set", interface_name, "up">>
               IN  IF run.raised THEN Switched(Return(FALSE), <<command>>, d)
                   ELSE Switched(Return(run.returncode = 0), <<command>>, d)
          [] p = "Windows" ->
               LET command == <<"netsh", "interface", "set", "interface",
                                interface_name, "enabled">>
               IN  IF run.raised THEN Switched(Return(FALSE), <<command>>, d)
                   ELSE Switched(Return(run.returncode = 0), <<command>>, d)
          [] OTHER -> Switched(Return(FALSE), <<>>, d)

\* NetworkWirelessDetector.enable_device: `ip link set <interface> up` on
\* Linux, `netsh interface set interface <interface> enabled` on Windows, and
\* True once the run is back; the except clause passes and False is
\* returned; False on the other platforms.
NetworkWirelessDetector_enable_device(d, p, run) ==
    LET interface_name == interface_name_of(d)
    IN  CASE p = "Linux" ->
               LET command == <<"ip", "link", "set", interface_name, "up">>
               IN  IF run.raised THEN Switched(Return(FALSE), <<command>>, d)
                   ELSE Switched(Return(TRUE), <<command>>, d)
          [] p = "Windows" ->
               LET command == <<"netsh", "interface", "set", "interface",
                                interface_name, "enabled">>
               IN  IF run.raised THEN Switched(Return(FALSE), <<command>>, d)
                   ELSE Switched(Return(TRUE), <<command>>, d)
          [] OTHER -> Switched(Return(FALSE), <<>>, d)

\* NetworkWirelessDetector.disable_device
NetworkWirelessDetector_disable_device(d, p, run) ==
    LET interface_name == interface_name_of(d)
    IN  CASE p = "Linux" ->
               LET command == <<"ip", "link", "set", interface_name, "down">>
               IN  IF run.raised THEN Switched(Return(FALSE), <<command>>, d)
                   ELSE Switched(Return(TRUE), <<command>>, d)
          [] p = "Windows" ->
               LET command == <<"netsh", "interface", "set", "interface",
                                interface_name, "disabled">>
               IN  IF run.raised THEN Switched(Return(FALSE), <<command>>, d)
                   ELSE Switched(Return(TRUE), <<command>>, d)
          [] OTHER -> Switched(Return(FALSE), <<>>, d)

\* detector.enable_device(device) with what it does besides returning.
Detector_enable_device(det, d, p, run) ==
    CASE det = "BluetoothDetector" -> BluetoothDetector_enable_device(d, p, run)
      [] det = "USBWirelessDetector" -> USBWirelessDetector_enable_device(d, p, run)
      [] det = "NetworkWirelessDetector" -> NetworkWirelessDetector_enable_device(d, p, run)

\* detector.disable_device(device) with what it does besides returning.
Detector_disable_device(det, d, p, run) ==
    CASE det = "BluetoothDetector" -> BluetoothDetector_disable_device(d, p, run)
      [] det = "USBWirelessDetector" -> USBWirelessDetector_disable_device(d, p, run)
      [] det = "NetworkWirelessDetector" -> NetworkWirelessDetector_disable_device(d, p, run)

\* ------------------------------------------ detectors.py: BluetoothDetector

\* _detect_linux_bluetooth, a pass of either loop: a line that begins with the
\* prefix and has at least three tokens gives a device.
bluetoothctl_line_first_token(line, prefix, interface, status) ==
    IF startswith(strip(line), prefix)
    THEN LET parts == split_whitespace(line)
         IN  IF Len(parts) >= 3
             THEN <<WirelessDevice(parts[3], BLUETOOTH, interface, parts[2], status,
                                   None, None, "{}")>>
             ELSE <<>>
    ELSE <<>>

bluetoothctl_line(line, prefix, interface, status) ==
    IF startswith(strip(line), prefix)
    THEN LET parts == split_whitespace(line)
         IN  IF Len(parts) >= 3
             THEN <<WirelessDevice(join(" ", SubSeq(parts, 3, Len(parts))), BLUETOOTH,
                                   interface, parts[2], status, None, None, "{}")>>
             ELSE <<>>
    ELSE <<>>

RECURSIVE bluetoothctl_lines(_, _, _, _)
bluetoothctl_lines(lines, prefix, interface, status) ==
    IF lines = <<>> THEN <<>>
    ELSE bluetoothctl_line(Head(lines), prefix, interface, status)
            \o bluetoothctl_lines(Tail(lines), prefix, interface, status)

\* The try block of _detect_linux_bluetooth: `bluetoothctl list`, its lines,
\* then `bluetoothctl paired-devices`, its lines.
_detect_linux_bluetooth_try(os) ==
    IF os.list.raised THEN BlockRaised(<<>>)
    ELSE LET controllers ==
                 IF os.list.returncode = 0
                 THEN bluetoothctl_lines(split(os.list.stdout, "\n"), "Controller",
                                         "Bluetooth Controller", ENABLED_STATUS)
                 ELSE <<>>
         IN  IF os.paired.raised THEN BlockRaised(controllers)
             ELSE BlockDone(controllers \o
                     (IF os.paired.returncode = 0
                      THEN bluetoothctl_lines(split(os.paired.stdout, "\n"), "Device",
                                              "Bluetooth Device", PAIRED)
                      ELSE <<>>))

\* Fault seeded in _detect_linux_bluetooth: no except clause.
_detect_linux_bluetooth_no_except(os) ==
    LET block == _detect_linux_bluetooth_try(os)
    IN  IF block.raised THEN Raise ELSE Return(block.devices)

\* _detect_linux_bluetooth: the except clause prints and the list as it
\* stands is returned.
_detect_linux_bluetooth(os) == Return(_detect_linux_bluetooth_try(os).devices)

\* _detect_windows_bluetooth: nothing without the wmi and pythoncom modules;
\* else os.block is how the try block over Win32_PnPEntity() ends, and the
\* list as it stands is returned (CoUninitialize's failure is swallowed).
_detect_windows_bluetooth(os) ==
    IF ~os.wmi THEN Return(<<>>) ELSE Return(os.block.devices)

\* _detect_macos_bluetooth: os.block is how the try block over
\* system_profiler's output ends.
_detect_macos_bluetooth(os) == Return(os.block.devices)

\* BluetoothDetector.detect_devices() on platform p.
BluetoothDetector_detect_devices(p, os) ==
    LET found == CASE p = "Windows" -> _detect_windows_bluetooth(os)
                   [] p = "Linux" -> _detect_linux_bluetooth(os)
                   [] p = "Darwin" -> _detect_macos_bluetooth(os)
                   [] OTHER -> Return(<<>>)
    IN  IF found.raised THEN Raise ELSE Return(<<>> \o found.out)

\* --------------------------------------- detectors.py: USBWirelessDetector

\* Fault seeded in _classify_device_by_name: the bluetooth test comes before
\* the WiFi test.
_classify_device_by_name_bluetooth_first(name) ==
    LET name_lower == lower(name)
    IN  IF contains_any(name_lower, {"receiver", "dongle", "unifying"}) THEN RF_DONGLE
        ELSE IF contains_any(name_lower, {"bluetooth"}) THEN BLUETOOTH
        ELSE IF contains_any(name_lower, {"wifi", "wireless lan", "802.11", "wlan"})
             THEN WIFI_ADAPTER
        ELSE IF contains_any(name_lower, {"audio", "headset", "speaker", "microphone"})
             THEN WIRELESS_AUDIO
        ELSE UNKNOWN_WIRELESS

\* _classify_device_by_name(name), the classifier of the fallback parsers.
_classify_device_by_name(name) ==
    LET name_lower == lower(name)
    IN  IF contains_any(name_lower, {"receiver", "dongle", "unifying"}) THEN RF_DONGLE
        ELSE IF contains_any(name_lower, {"wifi", "wireless lan", "802.11", "wlan"})
             THEN WIFI_ADAPTER
        ELSE IF contains_any(name_lower, {"bluetooth"}) THEN BLUETOOTH
        ELSE IF contains_any(name_lower, {"audio", "headset", "speaker", "microphone"})
             THEN WIRELESS_AUDIO
        ELSE UNKNOWN_WIRELESS

\* Fault seeded in _classify_device: a bluetooth test before the default.
_classify_device_checks_bluetooth(product_name, vendor_name) ==
    LET product_lower == lower(product_name)
    IN  IF contains_any(product_lower, {"receiver", "dongle", "unifying"}) THEN RF_DONGLE
        ELSE IF contains_any(product_lower, {"wifi", "wireless lan", "802.11", "wlan"})
             THEN WIFI_ADAPTER
        ELSE IF contains_any(product_lower, {"audio", "headset", "speaker", "microphone"})
             THEN WIRELESS_AUDIO
        ELSE IF contains_any(product_lower, {"bluetooth"}) THEN BLUETOOTH
        ELSE RF_DONGLE

\* _classify_device(product_name, vendor_name), the classifier of the
\* structured path; vendor_lower is computed and not used.
_classify_device(product_name, vendor_name) ==
    LET product_lower == lower(product_name)
        vendor_lower == lower(vendor_name)
    IN  IF contains_any(product_lower, {"receiver", "dongle", "unifying"}) THEN RF_DONGLE
        ELSE IF contains_any(product_lower, {"wifi", "wireless lan", "802.11", "wlan"})
             THEN WIFI_ADAPTER
        ELSE IF contains_any(product_lower, {"audio", "headset", "speaker", "microphone"})
             THEN WIRELESS_AUDIO
        ELSE RF_DONGLE

\* _detect_linux_usb_fallback, a pass of the loop over lsusb's lines: the
\* devices it appends, or the ValueError of unpacking id_part.split(':') when
\* that has not exactly two pieces.
lsusb_line(line) ==
    IF strip(line) = "" THEN BlockDone(<<>>)
    ELSE LET parts == split_whitespace(line)
         IN  IF Len(parts) < 6 THEN BlockDone(<<>>)
             ELSE LET device_info == join(" ", SubSeq(parts, 7, Len(parts)))
                  IN  IF ~contains_any(lower(device_info),
                                       {"wireless", "wifi", "bluetooth", "dongle"})
                      THEN BlockDone(<<>>)
                      ELSE LET id_part == parts[6]
                               ids == split(id_part, ":")
                           IN  IF Len(ids) # 2 THEN BlockRaised(<<>>)
                               ELSE BlockDone(<<WirelessDevice(
                                        device_info,
                                        _classify_device_by_name(device_info),
                                        "USB (Bus " \o parts[2] \o ", Device "
                                            \o rstrip(parts[4], {":"}) \o ")",
                                        None, CONNECTED, ids[1], ids[2], "lsusb")>>)

\* The loop over lsusb's lines: an exception in a pass ends the loop.
RECURSIVE lsusb_lines(_, _)
lsusb_lines(lines, devices_so_far) ==
    IF lines = <<>> THEN BlockDone(devices_so_far)
    ELSE LET pass == lsusb_line(Head(lines))
         IN  IF pass.raised THEN BlockRaised(devices_so_far)
             ELSE lsusb_lines(Tail(lines), devices_so_far \o pass.devices)

\* The try block of _detect_linux_usb_fallback.
_detect_linux_usb_fallback_try(os) ==
    IF os.lsusb.raised THEN BlockRaised(<<>>)
    ELSE IF os.lsusb.returncode = 0
         THEN lsusb_lines(split(os.lsusb.stdout, "\n"), <<>>)
         ELSE BlockDone(<<>>)

\* _detect_linux_usb_fallback
_detect_linux_usb_fallback(os) == Return(_detect_linux_usb_fallback_try(os).devices)

\* _detect_windows_usb_fallback: nothing without the wmi and pythoncom
\* modules; else os.block is how the try block over
\* Win32_USBControllerDevice() ends.
_detect_windows_usb_fallback(os) ==
    IF ~os.wmi THEN Return(<<>>) ELSE Return(os.block.devices)

\* _detect_macos_usb_fallback: os.block is how the try block over
\* system_profiler's output ends.
_detect_macos_usb_fallback(os) == Return(os.block.devices)

\* USBWirelessDetector._detect_devices_fallback on platform p: an exception
\* out of a platform's parser would be caught here.
_detect_devices_fallback(p, os) ==
    LET found == CASE p = "Windows" -> _detect_windows_usb_fallback(os)
                   [] p = "Linux" -> _detect_linux_usb_fallback(os)
                   [] p = "Darwin" -> _detect_macos_usb_fallback(os)
                   [] OTHER -> Return(<<>>)
    IN  IF found.raised THEN Return(<<>>) ELSE Return(<<>> \o found.out)

\* Fault seeded in USBWirelessDetector.detect_devices: the except clause adds
\* the fallback's devices to the devices gathered.
USBWirelessDetector_detect_devices_mixes(p, os) ==
    IF ~os.backend THEN _detect_devices_fallback(p, os)
    ELSE IF os.structured.raised
         THEN Return(os.structured.devices \o _detect_devices_fallback(p, os).out)
         ELSE Return(os.structured.devices)

\* USBWirelessDetector.detect_devices() on platform p: the fallback without
\* the usb module or a backend; else os.structured is how the try block over
\* usb.core.find(...) ends, and when an exception ends it the fallback's
\* result is returned in place of the list gathered.
USBWirelessDetector_detect_devices(p, os) ==
    IF ~os.backend THEN _detect_devices_fallback(p, os)
    ELSE IF os.structured.raised THEN _detect_devices_fallback(p, os)
         ELSE Return(os.structured.devices)

\* ------------------- detectors.py: the parsers of system_profiler's output

\* s.endswith(suffix)
endswith(s, suffix) ==
    Len(s) >= Len(suffix) /\ SubSeq(s, Len(s) - Len(suffix) + 1, Len(s)) = suffix

\* The smallest of a non-empty set of numbers.
Min(S) == CHOOSE i \in S : \A j \in S : i <= j

\* _detect_macos_bluetooth, the pass of the loop at line i (from 1) of lines:
\* a line with "Address:" gives a device, named by the first line without
\* colon and not blank that range(max(0, i-5), i) comes to.
macos_bluetooth_line(lines, i) ==
    IF contains(lines[i], "Address:")
    THEN LET mac == strip(split(lines[i], ":")[2])
             from == IF i - 5 > 1 THEN i - 5 ELSE 1
             named == {j \in from..(i - 1) :
                          strip(lines[j]) # "" /\ ~contains(lines[j], ":")}
             name == IF named = {} THEN "Bluetooth Device" ELSE strip(lines[Min(named)])
         IN  <<WirelessDevice(name, BLUETOOTH, "Bluetooth", mac, CONNECTED, None, None, "{}")>>
    ELSE <<>>

RECURSIVE macos_bluetooth_lines(_, _)
macos_bluetooth_lines(lines, i) ==
    IF i > Len(lines) THEN <<>>
    ELSE macos_bluetooth_line(lines, i) \o macos_bluetooth_lines(lines, i + 1)

\* The try block of _detect_macos_bluetooth on what `system_profiler
\* SPBluetoothDataType` does.
_detect_macos_bluetooth_try(run) ==
    IF run.raised THEN BlockRaised(<<>>)
    ELSE IF run.returncode = 0
         THEN BlockDone(macos_bluetooth_lines(split(run.stdout, "\n"), 1))
         ELSE BlockDone(<<>>)

\* current_device of _detect_macos_usb_fallback: None, or the dict with the
\* name and type of a header and the product_id read since.
NoCurrentDevice == [set |-> FALSE]
CurrentDevice(name, type, product_id) ==
    [set |-> TRUE, name |-> name, type |-> type, product_id |-> product_id]

\* Fault seeded in the loop of _detect_macos_usb_fallback: current_device is
\* not reset when a record is appended.
RECURSIVE macos_usb_lines_no_reset(_, _, _)
macos_usb_lines_no_reset(lines, current_device, devices_so_far) ==
    IF lines = <<>> THEN devices_so_far
    ELSE LET line == strip(Head(lines))
         IN  IF endswith(line, ":") /\ ~startswith(line, " ")
             THEN LET device_name == SubSeq(line, 1, Len(line) - 1)
                  IN  IF contains_any(lower(device_name),
                                      {"wireless", "wifi", "bluetooth", "dongle"})
                      THEN macos_usb_lines_no_reset(
                               Tail(lines),
                               CurrentDevice(device_name,
                                             _classify_device_by_name(device_name), None),
                               devices_so_far)
                      ELSE macos_usb_lines_no_reset(Tail(lines), current_device,
                                                    devices_so_far)
             ELSE IF current_device.set /\ contains(line, "Product ID:")
                  THEN macos_usb_lines_no_reset(
                           Tail(lines),
                           [current_device EXCEPT !.product_id = strip(split(line, ":")[2])],
                           devices_so_far)
             ELSE IF current_device.set /\ contains(line, "Vendor ID:")
                  THEN macos_usb_lines_no_reset(
                           Tail(lines), current_device,
                           Append(devices_so_far,
                                  WirelessDevice(current_device.name, current_device.type,
                                                 "USB", None, CONNECTED,
                                                 strip(split(line, ":")[2]),
                                                 current_device.product_id,
                                                 "system_profiler")))
             ELSE macos_usb_lines_no_reset(Tail(lines), current_device, devices_so_far)

\* The loop of _detect_macos_usb_fallback over the lines: a line that ends
\* with a colon is a device name and, with a wireless keyword, becomes the
\* current device; with a current device a "Product ID:" line is noted and a
\* "Vendor ID:" line appends the record and resets the current device.
RECURSIVE macos_usb_lines(_, _, _)
macos_usb_lines(lines, current_device, devices_so_far) ==
    IF lines = <<>> THEN devices_so_far
    ELSE LET line == strip(Head(lines))
         IN  IF endswith(line, ":") /\ ~startswith(line, " ")
             THEN LET device_name == SubSeq(line, 1, Len(line) - 1)
                  IN  IF contains_any(lower(device_name),
                                      {"wireless", "wifi", "bluetooth", "dongle"})
                      THEN macos_usb_lines(
                               Tail(lines),
                               CurrentDevice(device_name,
                                             _classify_device_by_name(device_name), None),
                               devices_so_far)
                      ELSE macos_usb_lines(Tail(lines), current_device, devices_so_far)
             ELSE IF current_device.set /\ contains(line, "Product ID:")
                  THEN macos_usb_lines(
                           Tail(lines),
                           [current_device EXCEPT !.product_id = strip(split(line, ":")[2])],
                           devices_so_far)
             ELSE IF current_device.set /\ contains(line, "Vendor ID:")
                  THEN macos_usb_lines(
                           Tail(lines), NoCurrentDevice,
                           Append(devices_so_far,
                                  WirelessDevice(current_device.name, current_device.type,
                                                 "USB", None, CONNECTED,
                                                 strip(split(line, ":")[2]),
                                                 current_device.product_id,
                                                 "system_profiler")))
             ELSE macos_usb_lines(Tail(lines), current_device, devices_so_far)

\* The try block of _detect_macos_usb_fallback on what `system_profiler
\* SPUSBDataType` does.
_detect_macos_usb_fallback_try(run) ==
    IF run.raised THEN BlockRaised(<<>>)
    ELSE IF run.returncode = 0
         THEN BlockDone(macos_usb_lines(split(run.stdout, "\n"), NoCurrentDevice, <<>>))
         ELSE BlockDone(<<>>)

\* ----------------- detectors.py: USBWirelessDetector, the structured path

\* USBWirelessDetector.WIRELESS_VENDORS (the keys 0x046d, 0x045e, 0x1532,
\* 0x0b05, 0x0bda, 0x148f, 0x0cf3, 0x8087 in decimal).
WIRELESS_VENDORS ==
    (1133 :> "Logitech") @@ (1118 :> "Microsoft") @@ (5426 :> "Razer")
      @@ (2821 :> "ASUS") @@ (3034 :> "Realtek") @@ (5263 :> "Ralink")
      @@ (3315 :> "Atheros") @@ (32903 :> "Intel")

HexDigits == "0123456789abcdef"

\* format(n, 'x')
RECURSIVE hex(_)
hex(n) ==
    IF n < 16 THEN CharAt(HexDigits, n + 1)
    ELSE hex(n \div 16) \o CharAt(HexDigits, (n % 16) + 1)

\* f"{n:04x}": at least four hexadecimal digits, zeros in front.
RECURSIVE zero_fill(_, _)
zero_fill(s, width) == IF Len(s) >= width THEN s ELSE zero_fill("0" \o s, width)

format_04x(n) == zero_fill(hex(n), 4)

\* The backends in the order _initialize_backend lists them.
backends == <<"libusb1", "libusb0", "openusb">>

\* What a get_backend() call does: a backend object, None, or an exception.
BackendAnswers == {"backend", "None", "raises"}

\* The loop of _initialize_backend from the k-th backend on: the first
\* get_backend() that returns an object is taken and ends the loop; one that
\* returns None or raises is passed over.  tried lists the calls made.
RECURSIVE try_backends(_, _, _)
try_backends(answers, k, tried) ==
    IF k > Len(backends) THEN [backend |-> None, tried |-> tried]
    ELSE IF answers[k] = "backend"
         THEN [backend |-> backends[k], tried |-> Append(tried, backends[k])]
         ELSE try_backends(answers, k + 1, Append(tried, backends[k]))

\* Fault seeded in _initialize_backend: no break, the last backend that
\* initializes is kept.
_initialize_backend_no_break(usb, answers) ==
    IF ~usb THEN [backend |-> None, tried |-> <<>>]
    ELSE LET got == {k \in 1..Len(backends) : answers[k] = "backend"}
         IN  [backend |-> IF got = {} THEN None
                          ELSE backends[CHOOSE k \in got : \A j \in got : j <= k],
              tried |-> backends]

\* USBWirelessDetector.__init__ with _initialize_backend: self.backend = None,
\* and nothing else without the usb module.
_initialize_backend(usb, answers) ==
    IF ~usb THEN [backend |-> None, tried |-> <<>>]
    ELSE try_backends(answers, 1, <<>>)

\* _is_wireless_device(device): an exception in the test (raises_in =
\* "relevance") is passed and False returned.  interfaces lists the
\* bInterfaceClass values the iteration over the configurations gives before
\* it ends or raises, which the inner except passes as well.
_is_wireless_device(device) ==
    IF device.raises_in = "relevance" THEN FALSE
    ELSE IF device.idVendor \in DOMAIN WIRELESS_VENDORS THEN TRUE
    ELSE IF device.has_bDeviceClass /\ device.bDeviceClass \in {3, 9} THEN TRUE
    ELSE IF \E i \in 1..Len(device.interfaces) : device.interfaces[i] \in {3, 224}
         THEN TRUE
    ELSE FALSE

\* Fault seeded in _get_device_info: no record for a device whose reading
\* raises (the caller appends nothing for it).
_get_device_info_drops(device) ==
    IF device.raises_in = "info" THEN <<>>
    ELSE LET vendor_name == IF device.idVendor \in DOMAIN WIRELESS_VENDORS
                            THEN WIRELESS_VENDORS[device.idVendor] ELSE "Unknown"
             product_name == IF device.product = "raises"
                             THEN "USB Device " \o format_04x(device.idVendor) \o ":"
                                      \o format_04x(device.idProduct)
                             ELSE device.product
         IN  <<WirelessDevice(vendor_name \o " " \o product_name,
                              _classify_device(product_name, vendor_name),
                              "USB (Bus " \o ToString(device.bus) \o ", Device "
                                  \o ToString(device.address) \o ")",
                              None, CONNECTED, format_04x(device.idVendor),
                              format_04x(device.idProduct), "pyusb")>>

\* _get_device_info(device), as the list of what detect_devices appends for
\* the device: the record read from the device, with the product name
\* replaced when usb.util.get_string raises; or, when the reading raises
\* (raises_in = "info"), the record the except clause builds.
_get_device_info(device) ==
    IF device.raises_in = "info"
    THEN <<WirelessDevice("Unknown USB Wireless Device", UNKNOWN_WIRELESS, "USB", None,
                          UNKNOWN, None, None, "error")>>
    ELSE LET vendor_name == IF device.idVendor \in DOMAIN WIRELESS_VENDORS
                            THEN WIRELESS_VENDORS[device.idVendor] ELSE "Unknown"
             product_name == IF device.product = "raises"
                             THEN "USB Device " \o format_04x(device.idVendor) \o ":"
                                      \o format_04x(device.idProduct)
                             ELSE device.product
         IN  <<WirelessDevice(vendor_name \o " " \o product_name,
                              _classify_device(product_name, vendor_name),
                              "USB (Bus " \o ToString(device.bus) \o ", Device "
                                  \o ToString(device.address) \o ")",
                              None, CONNECTED, format_04x(device.idVendor),
                              format_04x(device.idProduct), "pyusb")>>

\* The loop of detect_devices over usb.core.find(find_all=True, ...).
RECURSIVE usb_devices_loop(_)
usb_devices_loop(usb_devices) ==
    IF usb_devices = <<>> THEN <<>>
    ELSE (IF _is_wireless_device(Head(usb_devices))
          THEN _get_device_info(Head(usb_devices)) ELSE <<>>)
            \o usb_devices_loop(Tail(usb_devices))

\* The try block of detect_devices: the enumeration gives usb_devices and
\* then ends, or raises (find_raises) after it has given them.
detect_devices_try(usb_devices, find_raises) ==
    IF find_raises THEN BlockRaised(usb_devices_loop(usb_devices))
    ELSE BlockDone(usb_devices_loop(usb_devices))

\* USBWirelessDetector.detect_devices() of a detector whose backend is
\* backend, on platform p: `not usb or self.backend is None` and the try
\* block over the enumeration, handed to the method as modelled above.
USBWirelessDetector_detect(backend, p, os) ==
    USBWirelessDetector_detect_devices(
        p, [backend |-> os.usb /\ backend # None,
            structured |-> detect_devices_try(os.usb_devices, os.find_raises)] @@ os)

\* ----------------------------------- detectors.py: NetworkWirelessDetector

\* _detect_linux_network_fallback, the loop over iwconfig's lines.
RECURSIVE iwconfig_lines(_)
iwconfig_lines(lines) ==
    IF lines = <<>> THEN <<>>
    ELSE (IF contains(Head(lines), "IEEE 802.11")
          THEN LET interface_name == split_whitespace(Head(lines))[1]
               IN  <<WirelessDevice("Wireless Interface " \o interface_name, WIFI_ADAPTER,
                                    interface_name, None, ENABLED_STATUS, None, None,
                                    "iwconfig")>>
          ELSE <<>>) \o iwconfig_lines(Tail(lines))

\* The try block of _detect_linux_network_fallback.
_detect_linux_network_fallback_try(os) ==
    IF os.iwconfig.raised THEN BlockRaised(<<>>)
    ELSE IF os.iwconfig.returncode = 0
         THEN BlockDone(iwconfig_lines(split(os.iwconfig.stdout, "\n")))
         ELSE BlockDone(<<>>)

\* _detect_linux_network_fallback
_detect_linux_network_fallback(os) ==
    Return(_detect_linux_network_fallback_try(os).devices)

\* _detect_windows_network_fallback: os.block is how the try block over
\* netsh's output ends.
_detect_windows_network_fallback(os) == Return(os.block.devices)

\* _detect_macos_network_fallback: os.block is how the try block over
\* networksetup's output ends.
_detect_macos_network_fallback(os) == Return(os.block.devices)

\* NetworkWirelessDetector._detect_network_fallback on platform p.
_detect_network_fallback(p, os) ==
    LET found == CASE p = "Linux" -> _detect_linux_network_fallback(os)
                   [] p = "Windows" -> _detect_windows_network_fallback(os)
                   [] p = "Darwin" -> _detect_macos_network_fallback(os)
                   [] OTHER -> Return(<<>>)
    IN  IF found.raised THEN Return(<<>>) ELSE Return(<<>> \o found.out)

\* NetworkWirelessDetector.detect_devices() on platform p: the fallback
\* without psutil; else os.structured is how the try block over
\* psutil.net_if_addrs() ends.
NetworkWirelessDetector_detect_devices(p, os) ==
    IF ~os.psutil THEN _detect_network_fallback(p, os)
    ELSE IF os.structured.raised THEN _detect_network_fallback(p, os)
         ELSE Return(os.structured.devices)

\* ------------------------------------------------------ device_manager.py

\* WirelessDeviceManager.enable_device(device): the detectors in order, the
\* first whose can_manage_device is true is delegated to and its result
\* returned; the device's status is set only on success.  The value is the
\* returned bool, the device as the call leaves it, and the detectors whose
\* enable_device was invoked, in order, each with what it returned.
\* Fault seeded in enable_device: the status is set whether or not the
\* delegated call succeeded.
RECURSIVE enable_from_always_sets(_, _, _, _)
enable_from_always_sets(k, device, p, osRaises) ==
    IF k > Len(detectors)
    THEN [success |-> FALSE, device |-> device, calls |-> <<>>]
    ELSE IF DetCanManage(detectors[k], device)
         THEN LET success == DetEnable(detectors[k], device, p, osRaises)
              IN  [success |-> success,
                   device |-> [device EXCEPT !.status = ENABLED_STATUS],
                   calls |-> <<[detector |-> detectors[k], result |-> success]>>]
         ELSE enable_from_always_sets(k + 1, device, p, osRaises)

\* Fault seeded in enable_device: a detector that claims the device and fails
\* does not end the loop, the next claiming detector is tried.
RECURSIVE enable_from_falls_through(_, _, _, _)
enable_from_falls_through(k, device, p, osRaises) ==
    IF k > Len(detectors)
    THEN [success |-> FALSE, device |-> device, calls |-> <<>>]
    ELSE IF DetCanManage(detectors[k], device)
         THEN LET success == DetEnable(detectors[k], device, p, osRaises)
                  rest == enable_from_falls_through(k + 1, device, p, osRaises)
                  call == <<[detector |-> detectors[k], result |-> success]>>
              IN  IF success
                  THEN [success |-> TRUE,
                        device |-> [device EXCEPT !.status = ENABLED_STATUS],
                        calls |-> call]
                  ELSE [success |-> rest.success, device |-> rest.device,
                        calls |-> call \o rest.calls]
         ELSE enable_from_falls_through(k + 1, device, p, osRaises)

RECURSIVE enable_from(_, _, _, _)
enable_from(k, device, p, osRaises) ==
    IF k > Len(detectors)
    THEN [success |-> FALSE, device |-> device, calls |-> <<>>]
    ELSE IF DetCanManage(detectors[k], device)
         THEN LET success == DetEnable(detectors[k], device, p, osRaises)
              IN  [success |-> success,
                   device |-> IF success THEN [device EXCEPT !.status = ENABLED_STATUS]
                                         ELSE device,
                   calls |-> <<[detector |-> detectors[k], result |-> success]>>]
         ELSE enable_from(k + 1, device, p, osRaises)

enable_device(device, p, osRaises) == enable_from(1, device, p, osRaises)

\* WirelessDeviceManager.disable_device(device)
RECURSIVE disable_from(_, _, _, _)
disable_from(k, device, p, osRaises) ==
    IF k > Len(detectors)
    THEN [success |-> FALSE, device |-> device, calls |-> <<>>]
    ELSE IF DetCanManage(detectors[k], device)
         THEN LET success == DetDisable(detectors[k], device, p, osRaises)
              IN  [success |-> success,
                   device |-> IF success THEN [device EXCEPT !.status = DISABLED]
                                         ELSE device,
                   calls |-> <<[detector |-> detectors[k], result |-> success]>>]
         ELSE disable_from(k + 1, device, p, osRaises)

disable_device(device, p, osRaises) == disable_from(1, device, p, osRaises)

\* Fault seeded in can_manage_device: all(...) in place of any(...).
can_manage_device_all(device) ==
    \A k \in 1..Len(detectors) : DetCanManage(detectors[k], device)

\* WirelessDeviceManager.can_manage_device(device): any(...) over the detectors.
can_manage_device(device) ==
    \E k \in 1..Len(detectors) : DetCanManage(detectors[k], device)

\* WirelessDeviceManager.get_device_detector(device): the first detector that
\* claims the device, or None.
RECURSIVE detector_from(_, _)
detector_from(k, device) ==
    IF k > Len(detectors) THEN None
    ELSE IF DetCanManage(detectors[k], device) THEN detectors[k]
         ELSE detector_from(k + 1, device)

get_device_detector(device) == detector_from(1, device)

\* WirelessDeviceManager.get_devices_by_type(device_type), devs being
\* self.devices: the list comprehension keeps the collection's order.
get_devices_by_type(devs, device_type) ==
    SelectSeq(devs, LAMBDA device : device.device_type = device_type)

\* Fault seeded in get_devices_by_status: the matching devices are given
\* last first.
get_devices_by_status_reversed(devs, status) ==
    LET kept == SelectSeq(devs, LAMBDA device : device.status = status)
    IN  [i \in 1..Len(kept) |-> kept[Len(kept) + 1 - i]]

\* WirelessDeviceManager.get_devices_by_status(status)
get_devices_by_status(devs, status) ==
    SelectSeq(devs, LAMBDA device : device.status = status)

\* What get_device_by_name / get_device_by_mac return: a device of the
\* collection, or None.
Found(device) == [found |-> TRUE, device |-> device]
NotFound == [found |-> FALSE]

\* WirelessDeviceManager.get_device_by_name(name): the loop returns at the
\* first device whose name equals the argument.
RECURSIVE get_device_by_name(_, _)
get_device_by_name(devs, name) ==
    IF devs = <<>> THEN NotFound
    ELSE IF Head(devs).name = name THEN Found(Head(devs))
         ELSE get_device_by_name(Tail(devs), name)

\* WirelessDeviceManager.get_device_by_mac(mac_address)
RECURSIVE get_device_by_mac(_, _)
get_device_by_mac(devs, mac_address) ==
    IF devs = <<>> THEN NotFound
    ELSE IF Head(devs).mac_address = mac_address THEN Found(Head(devs))
         ELSE get_device_by_mac(Tail(devs), mac_address)

\* Fault seeded in get_manageable_devices: the filter is dropped.
get_manageable_devices_unfiltered(devs) == devs

\* WirelessDeviceManager.get_manageable_devices()
get_manageable_devices(devs) ==
    SelectSeq(devs, LAMBDA device : can_manage_device(device))

\* Fault seeded in get_device_statistics: the `if count > 0` tests are
\* dropped, every type and status gets a bucket.
get_device_statistics_every_bucket(devs) ==
    [total_devices |-> Len(devs),
     by_type |-> [t \in DeviceType |-> Len(get_devices_by_type(devs, t))],
     by_status |-> [s \in DeviceStatus |-> Len(get_devices_by_status(devs, s))],
     manageable |-> Len(get_manageable_devices(devs))]

\* WirelessDeviceManager.get_device_statistics(): the two dicts are keyed by
\* the enumerations' values and hold the counts that are greater than zero.
get_device_statistics(devs) ==
    [total_devices |-> Len(devs),
     by_type |-> [t \in {u \in DeviceType : Len(get_devices_by_type(devs, u)) > 0} |->
                     Len(get_devices_by_type(devs, t))],
     by_status |-> [s \in {u \in DeviceStatus : Len(get_devices_by_status(devs, u)) > 0} |->
                       Len(get_devices_by_status(devs, s))],
     manageable |-> Len(get_manageable_devices(devs))]

\* The first loop of scan_devices from the k-th detector on: outcomes[k] is
\* what detectors[k].detect_devices() does, a raise is caught and skipped.
RECURSIVE detect_loop(_, _, _)
detect_loop(k, list, outcomes) ==
    IF k > Len(detectors) THEN list
    ELSE detect_loop(k + 1,
                     IF outcomes[k].raised THEN list ELSE list \o outcomes[k].out,
                     outcomes)

\* Fault seeded in scan_devices: the collection is not cleared on entry.
scan_devices_no_clear(prior, outcomes) == detect_loop(1, prior, outcomes)

\* WirelessDeviceManager.scan_devices() as one call, prior being self.devices
\* on entry: self.devices = [] and then the first loop.
scan_devices(prior, outcomes) == detect_loop(1, <<>>, outcomes)

\* ---------------------------------------------------------------- state

VARIABLES
    platform,        \* platform.system(), fixed for the process
    devices,         \* WirelessDeviceManager.devices, the live collection
    scan_callbacks,  \* WirelessDeviceManager._scan_callbacks
    pc,              \* where scan_devices is: "idle", "detect", "notify"
    di,              \* index of the detector the first loop is at
    ci,              \* index of the observer the second loop is at
    detected,        \* this scan's detect_devices() outcomes, in call order
    notified,        \* this scan's observer calls, in call order
    returned,        \* what this scan_devices() call returned, once it has
    hadDevices,      \* whether the collection was non-empty when this scan began
    held,            \* SpecDev: the device record the caller holds
    last,            \* the caller's last call, and its result
    probe,           \* what the operating system answers to the probes made of it
    out,             \* what the last detector or classifier call gave back
    usb_backend,     \* SpecUSB: USBWirelessDetector.backend
    lists,           \* SpecOverlap: the list objects scan_devices has made, by identity
    bound,           \* SpecOverlap: the identity of the list self.devices names
    scans,           \* SpecOverlap: each scan thread's position and locals
    monitor,         \* SpecMonitor: the SystemMonitor's fields
    threads          \* SpecMonitor: the caller's and each loop thread's position

\* The two variables of the specifications of the detectors' probing.
probeVars == <<probe, out>>

\* The variables of single objects, each looked at by one specification and
\* set aside by the others.
overlapVars == <<lists, bound, scans>>
monitorVars == <<monitor, threads>>
objVars == <<usb_backend, overlapVars, monitorVars>>

\* The value of a variable a specification sets aside.
Aside == "aside"

OverlapAside == lists = Aside /\ bound = Aside /\ scans = Aside
MonitorAside == monitor = Aside /\ threads = Aside
ObjectsAside == usb_backend = Aside /\ OverlapAside /\ MonitorAside

vars == <<platform, devices, scan_callbacks, pc, di, ci, detected, notified,
          returned, hadDevices, held, last, probeVars, objVars>>

scanVars == <<devices, scan_callbacks, pc, di, ci, detected, notified, returned, hadDevices>>

\* How the scan_devices() call stands: not returned yet, returned a list, or
\* left by an exception instead of a return.
NoReturn == [kind |-> "none"]
Returned(list) == [kind |-> "value", value |-> list]
ScanRaised == [kind |-> "raised"]
NoDevice == "NoDevice"
NoCall == [op |-> "none"]
\* No probing is looked at: the manager's specifications leave the operating
\* system's answers open at every detect_devices() call.
NoProbe == [kind |-> "none"]
NoOut == [op |-> "none"]

\* The observer a caller registers next: observers are told apart by the
\* order in which they were registered.
FreshCallbacks == {Len(scan_callbacks) + 1}

\* ------------------------------------------------ Spec: the manager's life

\* WirelessDeviceManager.__init__ in a process on any platform.
Init ==
    /\ platform \in Platforms
    /\ devices = <<>>
    /\ scan_callbacks = <<>>
    /\ pc = "idle"
    /\ di = 1
    /\ ci = 1
    /\ detected = <<>>
    /\ notified = <<>>
    /\ returned = NoReturn
    /\ hadDevices = FALSE
    /\ held = NoDevice
    /\ last = NoCall
    /\ probe = NoProbe
    /\ out = NoOut
    /\ ObjectsAside

\* Fault seeded in list.extend: a device equal to one already in the list is
\* not added again.
RECURSIVE extend_dedup(_, _)
extend_dedup(list, items) ==
    IF items = <<>> THEN list
    ELSE IF \E i \in 1..Len(list) : list[i] = Head(items)
         THEN extend_dedup(list, Tail(items))
         ELSE extend_dedup(Append(list, Head(items)), Tail(items))

\* Fault seeded in list.extend: the new devices are put in front.
extend_front(list, items) == items \o list

\* self.devices.extend(detected_devices)
extend(list, items) == list \o items

\* add_scan_callback(callback)
add_scan_callback(cb) ==
    /\ pc = "idle"
    /\ Len(scan_callbacks) < MaxCallbacks
    /\ scan_callbacks' = Append(scan_callbacks, cb)
    /\ UNCHANGED <<platform, devices, pc, di, ci, detected, notified, returned,
                   hadDevices, held, last, probeVars, objVars>>

\* Fault seeded in scan_devices: the collection is not cleared on entry.
ScanStart_no_clear ==
    /\ pc = "idle"
    /\ devices' = devices
    /\ pc' = "detect"
    /\ di' = 1
    /\ ci' = 1
    /\ detected' = <<>>
    /\ notified' = <<>>
    /\ returned' = NoReturn
    /\ hadDevices' = (Len(devices) > 0)
    /\ UNCHANGED <<platform, scan_callbacks, held, last, probeVars, objVars>>

\* scan_devices, entry: self.devices = [] and the first loop begins.
ScanStart ==
    /\ pc = "idle"
    /\ devices' = <<>>
    /\ pc' = "detect"
    /\ di' = 1
    /\ ci' = 1
    /\ detected' = <<>>
    /\ notified' = <<>>
    /\ returned' = NoReturn
    /\ hadDevices' = (Len(devices) > 0)
    /\ UNCHANGED <<platform, scan_callbacks, held, last, probeVars, objVars>>

\* Fault seeded in the first loop: no try/except, a detector's exception
\* leaves scan_devices.
ScanDetect_no_catch(outcome) ==
    /\ pc = "detect"
    /\ detected' = Append(detected, [detector |-> detectors[di], raised |-> outcome.raised,
                                     out |-> outcome.out])
    /\ IF outcome.raised
       THEN /\ pc' = "idle"
            /\ returned' = ScanRaised
            /\ UNCHANGED <<devices, di>>
       ELSE /\ devices' = extend(devices, outcome.out)
            /\ returned' = returned
            /\ IF di < Len(detectors)
               THEN di' = di + 1 /\ pc' = "detect"
               ELSE di' = di /\ pc' = "notify"
    /\ UNCHANGED <<platform, scan_callbacks, ci, notified, hadDevices, held, last, probeVars, objVars>>

\* One pass of the first loop: detector.detect_devices() and, unless it
\* raised, self.devices.extend(detected_devices); a raise is caught and the
\* loop goes on.
ScanDetect(outcome) ==
    /\ pc = "detect"
    /\ devices' = IF outcome.raised THEN devices ELSE extend(devices, outcome.out)
    /\ detected' = Append(detected, [detector |-> detectors[di], raised |-> outcome.raised,
                                     out |-> outcome.out])
    /\ IF di < Len(detectors)
       THEN di' = di + 1 /\ pc' = "detect"
       ELSE di' = di /\ pc' = "notify"
    /\ UNCHANGED <<platform, scan_callbacks, ci, notified, returned, hadDevices, held, last, probeVars, objVars>>

\* Fault seeded in the second loop: no try/except, an observer's exception
\* leaves scan_devices.
ScanNotify_no_catch(cbRaises) ==
    /\ pc = "notify"
    /\ ci <= Len(scan_callbacks)
    /\ notified' = Append(notified, [callback |-> scan_callbacks[ci], arg |-> devices,
                                     raised |-> cbRaises])
    /\ ci' = ci + 1
    /\ IF cbRaises
       THEN pc' = "idle" /\ returned' = ScanRaised
       ELSE pc' = pc /\ returned' = returned
    /\ UNCHANGED <<platform, devices, scan_callbacks, di, detected, hadDevices, held, last, probeVars, objVars>>

\* One pass of the second loop: callback(self.devices); a raise is caught and
\* the loop goes on.
ScanNotify(cbRaises) ==
    /\ pc = "notify"
    /\ ci <= Len(scan_callbacks)
    /\ notified' = Append(notified, [callback |-> scan_callbacks[ci], arg |-> devices,
                                     raised |-> cbRaises])
    /\ ci' = ci + 1
    /\ UNCHANGED <<platform, devices, scan_callbacks, pc, di, detected, returned,
                   hadDevices, held, last, probeVars, objVars>>

\* return self.devices
ScanReturn ==
    /\ pc = "notify"
    /\ ci > Len(scan_callbacks)
    /\ returned' = Returned(devices)
    /\ pc' = "idle"
    /\ UNCHANGED <<platform, devices, scan_callbacks, di, ci, detected, notified,
                   hadDevices, held, last, probeVars, objVars>>

\* Fault seeded in enable_device: the status is written to every device of
\* the collection that has the enabled device's name, not to the one passed.
EnableLive_by_name(i, osRaises) ==
    /\ pc = "idle"
    /\ i \in 1..Len(devices)
    /\ devices' = [j \in 1..Len(devices) |->
                      IF devices[j].name = devices[i].name
                      THEN enable_device(devices[j], platform, osRaises).device
                      ELSE devices[j]]
    /\ UNCHANGED <<platform, scan_callbacks, pc, di, ci, detected, notified, returned,
                   hadDevices, held, last, probeVars, objVars>>

\* enable_device(self.devices[i]) by a caller between scans.
EnableLive(i, osRaises) ==
    /\ pc = "idle"
    /\ i \in 1..Len(devices)
    /\ devices' = [devices EXCEPT ![i] = enable_device(devices[i], platform, osRaises).device]
    /\ UNCHANGED <<platform, scan_callbacks, pc, di, ci, detected, notified, returned,
                   hadDevices, held, last, probeVars, objVars>>

\* disable_device(self.devices[i]) by a caller between scans.
DisableLive(i, osRaises) ==
    /\ pc = "idle"
    /\ i \in 1..Len(devices)
    /\ devices' = [devices EXCEPT ![i] = disable_device(devices[i], platform, osRaises).device]
    /\ UNCHANGED <<platform, scan_callbacks, pc, di, ci, detected, notified, returned,
                   hadDevices, held, last, probeVars, objVars>>

ScanStep ==
    \/ \E outcome \in DetectOutcomes(detectors[di], platform, MaxDevices - Len(devices)) :
          ScanDetect(outcome)
    \/ \E cbRaises \in BOOLEAN : ScanNotify(cbRaises)
    \/ ScanReturn

Next ==
    \/ \E cb \in FreshCallbacks : add_scan_callback(cb)
    \/ ScanStart
    \/ ScanStep
    \/ \E i \in 1..Len(devices), osRaises \in BOOLEAN : EnableLive(i, osRaises)
    \/ \E i \in 1..Len(devices), osRaises \in BOOLEAN : DisableLive(i, osRaises)

Spec == Init /\ [][Next]_vars

\* A scan that has begun is run on: every detect_devices() and observer call
\* returns or raises, and the calling thread is scheduled.
FairSpec == Spec /\ WF_vars(ScanStep)

\* ------------------------------- SpecDev: calls on a device the caller holds

\* Device records a caller can hold: every type and status, with and without
\* a MAC address, and every record a detector builds.
HeldDevices ==
    {WirelessDevice("dev", t, "if0", m, st, None, None, "{}") :
        t \in DeviceType, m \in {None, "AA:BB:CC:DD:EE:FF"}, st \in DeviceStatus}
      \cup UNION {Emits(detectors[k], p) : k \in 1..Len(detectors), p \in Platforms}

InitDev ==
    /\ platform \in Platforms
    /\ devices = <<>>
    /\ scan_callbacks = <<>>
    /\ pc = "idle"
    /\ di = 1
    /\ ci = 1
    /\ detected = <<>>
    /\ notified = <<>>
    /\ returned = NoReturn
    /\ hadDevices = FALSE
    /\ held \in HeldDevices
    /\ last = NoCall
    /\ probe = NoProbe
    /\ out = NoOut
    /\ ObjectsAside

\* manager.enable_device(held)
EnableHeld(osRaises) ==
    /\ LET r == enable_device(held, platform, osRaises)
       IN  /\ held' = r.device
           /\ last' = [op |-> "enable", device |-> held, success |-> r.success,
                       calls |-> r.calls]
    /\ UNCHANGED <<platform, scanVars, probeVars, objVars>>

\* manager.disable_device(held)
DisableHeld(osRaises) ==
    /\ LET r == disable_device(held, platform, osRaises)
       IN  /\ held' = r.device
           /\ last' = [op |-> "disable", device |-> held, success |-> r.success,
                       calls |-> r.calls]
    /\ UNCHANGED <<platform, scanVars, probeVars, objVars>>

\* manager.can_manage_device(held)
CanManageHeld ==
    /\ last' = [op |-> "can_manage", device |-> held,
                success |-> can_manage_device(held), calls |-> <<>>]
    /\ UNCHANGED <<platform, scanVars, held, probeVars, objVars>>

\* manager.detectors[k].can_manage_device(held)
DetCanManageHeld(k) ==
    /\ last' = [op |-> "det_can_manage", device |-> held,
                success |-> DetCanManage(detectors[k], held),
                calls |-> <<[detector |-> detectors[k],
                             result |-> DetCanManage(detectors[k], held)]>>]
    /\ UNCHANGED <<platform, scanVars, held, probeVars, objVars>>

NextDev ==
    \/ \E osRaises \in BOOLEAN : EnableHeld(osRaises)
    \/ \E osRaises \in BOOLEAN : DisableHeld(osRaises)
    \/ CanManageHeld
    \/ \E k \in 1..Len(detectors) : DetCanManageHeld(k)

SpecDev == InitDev /\ [][NextDev]_vars

\* ------------- SpecSwitch: a detector's enable/disable on a held device

\* What subprocess.run can do with a command: raise (tool missing, no
\* permission to execute, TimeoutExpired), or complete with exit status 0 or
\* another.
SwitchRuns == {RunRaised, Completed(0, <<>>), Completed(1, <<>>)}

SwitchCall(op, det, d, run, r) ==
    [op |-> op, detector |-> det, device |-> d, run |-> run,
     result |-> r.result, invoked |-> r.invoked]

\* manager.detectors[k].enable_device(held)
DetEnableHeld(k, run) ==
    /\ LET r == Detector_enable_device(detectors[k], held, platform, run)
       IN  /\ held' = r.device
           /\ out' = SwitchCall("enable_device", detectors[k], held, run, r)
    /\ UNCHANGED <<platform, scanVars, last, probe, objVars>>

\* manager.detectors[k].disable_device(held)
DetDisableHeld(k, run) ==
    /\ LET r == Detector_disable_device(detectors[k], held, platform, run)
       IN  /\ held' = r.device
           /\ out' = SwitchCall("disable_device", detectors[k], held, run, r)
    /\ UNCHANGED <<platform, scanVars, last, probe, objVars>>

NextSwitch ==
    \/ \E k \in 1..Len(detectors), run \in SwitchRuns : DetEnableHeld(k, run)
    \/ \E k \in 1..Len(detectors), run \in SwitchRuns : DetDisableHeld(k, run)

SpecSwitch == InitDev /\ [][NextSwitch]_vars

\* ------------------ SpecQuery: scans and queries over one operating system

\* The record _get_device_info builds when reading the device raises, and one
\* the structured path classifies as wireless audio: the USB detector gives
\* these besides the devices it can manage.
USBUnmanagedEmits(p) ==
    {WirelessDevice("Unknown USB Wireless Device", UNKNOWN_WIRELESS, "USB", None, UNKNOWN, None, None, "error"),
     WirelessDevice("Logitech Wireless Headset", WIRELESS_AUDIO, "USB (Bus 1, Device 6)", None, CONNECTED, "046d", "0a29", "pyusb")}

QueryEmits(det, p) ==
    IF det = "USBWirelessDetector" THEN USBEmits(p) \cup USBUnmanagedEmits(p)
    ELSE Emits(det, p)

QueryOutcomes(det, p, room) ==
    {[raised |-> TRUE, out |-> <<>>]}
      \cup {[raised |-> FALSE, out |-> s] : s \in SeqsUpTo(QueryEmits(det, p), room)}

\* The states of the operating system a scan can meet: what each of the three
\* detectors finds in it, at most MaxProbed devices in all.
OSStates(p) ==
    {[kind |-> "os", outcomes |-> o] :
        o \in {t \in QueryOutcomes(detectors[1], p, MaxProbed)
                       \X QueryOutcomes(detectors[2], p, MaxProbed)
                       \X QueryOutcomes(detectors[3], p, MaxProbed) :
                  Len(t[1].out) + Len(t[2].out) + Len(t[3].out) <= MaxProbed}}

InitQuery ==
    /\ platform \in Platforms
    /\ devices = <<>>
    /\ scan_callbacks = <<>>
    /\ pc = "idle"
    /\ di = 1
    /\ ci = 1
    /\ detected = <<>>
    /\ notified = <<>>
    /\ returned = NoReturn
    /\ hadDevices = FALSE
    /\ held = NoDevice
    /\ last = NoCall
    /\ probe \in OSStates(platform)
    /\ out = NoOut
    /\ ObjectsAside

\* scan_devices() run from entry to return against the operating system as
\* it stands (no observer is registered in this specification).
ScanAll ==
    /\ pc = "idle"
    /\ scan_callbacks = <<>>
    /\ devices' = scan_devices(devices, probe.outcomes)
    /\ detected' = [k \in 1..Len(detectors) |->
                       [detector |-> detectors[k], raised |-> probe.outcomes[k].raised,
                        out |-> probe.outcomes[k].out]]
    /\ notified' = <<>>
    /\ returned' = Returned(devices')
    /\ hadDevices' = (Len(devices) > 0)
    /\ di' = Len(detectors)
    /\ ci' = 1
    /\ UNCHANGED <<platform, scan_callbacks, pc, held, last, probeVars, objVars>>

NextQuery ==
    \/ ScanAll
    \/ \E i \in 1..Len(devices), osRaises \in BOOLEAN : EnableLive(i, osRaises)
    \/ \E i \in 1..Len(devices), osRaises \in BOOLEAN : DisableLive(i, osRaises)

SpecQuery == InitQuery /\ [][NextQuery]_vars

\* ------------------------- SpecProbe: one detect_devices() call per detector

Line(lead, sep, tokens) == [lead |-> lead, sep |-> sep, tokens |-> tokens]

\* Lines `bluetoothctl list` can write.
BluetoothctlListLines ==
    {Line("", " ", <<"Controller", "AA:BB:CC:DD:EE:FF", "MyPhone">>),
     Line("\t", " ", <<"Controller", "00:1A:7D:DA:71:13", "hci0", "[default]">>),
     Line("", " ", <<"Controller", "AA:BB">>),
     Line("", " ", <<"Device", "11:22:33:44:55:66", "JBL", "Flip", "5">>),
     Line("", " ", <<"Waiting", "to", "connect", "to", "bluetoothd...">>)}

\* Lines `bluetoothctl paired-devices` can write.
BluetoothctlPairedLines ==
    {Line("", " ", <<"Device", "11:22:33:44:55:66", "JBL", "Flip", "5">>),
     Line("  ", "  ", <<"Device", "22:33:44:55:66:77", "Mouse">>),
     Line("", " ", <<"Device", "11:22">>),
     Line("", " ", <<"Controller", "AA:BB:CC:DD:EE:FF", "MyPhone">>),
     Line("", " ", <<"No", "default", "controller", "available">>)}

\* Lines `lsusb` can write; the fourth has no colon in its ID token.
LsusbLines ==
    {Line("", " ", <<"Bus", "001", "Device", "004:", "ID", "046d:c52b",
                     "Logitech,", "Inc.", "Unifying", "Receiver">>),
     Line("", " ", <<"Bus", "002", "Device", "003:", "ID", "0a12:0001",
                     "Cambridge", "Silicon", "Radio,", "Ltd", "Bluetooth", "Dongle">>),
     Line("", " ", <<"Bus", "003", "Device", "002:", "ID", "046d:0a29",
                     "Logitech,", "Inc.", "Wireless", "Headset">>),
     Line("", " ", <<"Bus", "001", "Device", "006:", "ID", "0bda8176",
                     "Realtek", "Wireless", "Adapter">>),
     Line("", " ", <<"Bus", "001", "Device", "001:", "ID", "1d6b:0002",
                     "Linux", "Foundation", "2.0", "root", "hub">>)}

\* Lines `iwconfig` can write.
IwconfigLines ==
    {Line("", "  ", <<"wlan0", "IEEE 802.11", "ESSID:off/any">>),
     Line("", "  ", <<"lo", "no wireless extensions.">>),
     Line("          ", "  ", <<"Mode:Managed", "Access Point: Not-Associated">>)}

\* What a subprocess.run of a tool can do: raise, complete with status 0 and
\* up to MaxLines of the tool's lines, or complete with a status other than 0.
Runs(lines) ==
    {RunRaised}
      \cup {Completed(0, ls) : ls \in SeqsUpTo(lines, MaxLines)}
      \cup {Completed(1, ls) : ls \in SeqsUpTo(lines, 1)}

\* How a try block that appends records of a set can end.
Blocks(records) ==
    {BlockDone(s) : s \in SeqsUpTo(records, MaxGathered)}
      \cup {BlockRaised(s) : s \in SeqsUpTo(records, MaxGathered)}

\* Records _detect_windows_usb_fallback builds.
WindowsUSBFallbackEmits ==
    {WirelessDevice(name, _classify_device_by_name(name), "USB", None, CONNECTED,
                    None, None, "WMI") :
        name \in {"USB Wireless Dongle", "Generic Bluetooth Radio"}}

\* Records _detect_macos_usb_fallback builds.
MacosUSBFallbackEmits ==
    {WirelessDevice(name, _classify_device_by_name(name), "USB", None, CONNECTED,
                    "0x046d", "0x0a29", "system_profiler") :
        name \in {"Wireless Headset", "Bluetooth USB Host Controller"}}

\* Records the Windows and macOS network fallbacks build.
WindowsNetworkFallbackEmits ==
    {WirelessDevice("Wireless Interface Wi-Fi", WIFI_ADAPTER, "Wi-Fi", None, status,
                    None, None, "netsh") : status \in {ENABLED_STATUS, DISABLED}}

MacosNetworkFallbackEmits ==
    {WirelessDevice("Wireless Interface Wi-Fi", WIFI_ADAPTER, "en0", None, ENABLED_STATUS,
                    None, None, "networksetup")}

\* The operating system as BluetoothDetector.detect_devices() finds it.
BluetoothProbes(p) ==
    CASE p = "Linux" ->
           {[kind |-> "BluetoothDetector", list |-> a, paired |-> b] :
               a \in Runs(BluetoothctlListLines), b \in Runs(BluetoothctlPairedLines)}
      [] p = "Windows" ->
           {[kind |-> "BluetoothDetector", wmi |-> FALSE, block |-> BlockDone(<<>>)]}
             \cup {[kind |-> "BluetoothDetector", wmi |-> TRUE, block |-> b] :
                      b \in Blocks(BluetoothEmits(p))}
      [] p = "Darwin" ->
           {[kind |-> "BluetoothDetector", block |-> b] : b \in Blocks(BluetoothEmits(p))}
      [] OTHER -> {[kind |-> "BluetoothDetector"]}

\* The structured pass of the USB or the network detector: not available, or
\* a try block that ends one way or the other.
StructuredPasses(available, records) ==
    {(available :> FALSE) @@ [structured |-> BlockDone(<<>>)]}
      \cup {(available :> TRUE) @@ [structured |-> b] : b \in Blocks(records)}

\* The operating system as USBWirelessDetector.detect_devices() finds it.
USBFallbackProbes(p) ==
    CASE p = "Linux" -> {[lsusb |-> r] : r \in Runs(LsusbLines)}
      [] p = "Windows" ->
           {[wmi |-> FALSE, block |-> BlockDone(<<>>)]}
             \cup {[wmi |-> TRUE, block |-> b] : b \in Blocks(WindowsUSBFallbackEmits)}
      [] p = "Darwin" -> {[block |-> b] : b \in Blocks(MacosUSBFallbackEmits)}
      [] OTHER -> {[block |-> BlockDone(<<>>)]}

USBProbes(p) ==
    {[kind |-> "USBWirelessDetector"] @@ s @@ f :
        s \in StructuredPasses("backend", USBEmits(p)), f \in USBFallbackProbes(p)}

\* The operating system as NetworkWirelessDetector.detect_devices() finds it.
NetworkFallbackProbes(p) ==
    CASE p = "Linux" -> {[iwconfig |-> r] : r \in Runs(IwconfigLines)}
      [] p = "Windows" -> {[block |-> b] : b \in Blocks(WindowsNetworkFallbackEmits)}
      [] p = "Darwin" -> {[block |-> b] : b \in Blocks(MacosNetworkFallbackEmits)}
      [] OTHER -> {[block |-> BlockDone(<<>>)]}

NetworkProbes(p) ==
    {[kind |-> "NetworkWirelessDetector"] @@ s @@ f :
        s \in StructuredPasses("psutil", NetworkEmits(p)), f \in NetworkFallbackProbes(p)}

InitProbe ==
    /\ platform \in Platforms
    /\ devices = <<>>
    /\ scan_callbacks = <<>>
    /\ pc = "idle"
    /\ di = 1
    /\ ci = 1
    /\ detected = <<>>
    /\ notified = <<>>
    /\ returned = NoReturn
    /\ hadDevices = FALSE
    /\ held = NoDevice
    /\ last = NoCall
    /\ probe \in BluetoothProbes(platform) \cup USBProbes(platform)
                    \cup NetworkProbes(platform)
    /\ out = NoOut
    /\ ObjectsAside

Detected(result) == [op |-> "detect_devices", result |-> result]

\* BluetoothDetector().detect_devices()
BluetoothDetect ==
    /\ probe.kind = "BluetoothDetector"
    /\ out' = Detected(BluetoothDetector_detect_devices(platform, probe))
    /\ UNCHANGED <<platform, scanVars, held, last, probe, objVars>>

\* USBWirelessDetector().detect_devices()
USBDetect ==
    /\ probe.kind = "USBWirelessDetector"
    /\ out' = Detected(USBWirelessDetector_detect_devices(platform, probe))
    /\ UNCHANGED <<platform, scanVars, held, last, probe, objVars>>

\* NetworkWirelessDetector().detect_devices()
NetworkDetect ==
    /\ probe.kind = "NetworkWirelessDetector"
    /\ out' = Detected(NetworkWirelessDetector_detect_devices(platform, probe))
    /\ UNCHANGED <<platform, scanVars, held, last, probe, objVars>>

NextProbe ==
    \/ BluetoothDetect
    \/ USBDetect
    \/ NetworkDetect

SpecProbe == InitProbe /\ [][NextProbe]_vars

\* ------------------------------------------------ the two USB classifiers
\* One classifier call on a device name.  The names are up to MaxWords of
\* the words below with a blank between them: words with and without a
\* keyword of each branch, in either case, alone and inside a longer token.

Vocabulary ==
    {"802.11n", "IEEE802.11AC", "Bluetooth", "Audio", "Headset",
     "Receiver", "DONGLE", "Unifying", "WLAN", "Adapter"}

VendorNames == {"Logitech", "Unknown"}

Named(words, vendor_name) ==
    [kind |-> "name", words |-> words, product_name |-> join(" ", words),
     vendor_name |-> vendor_name]

InitClassify ==
    /\ platform = "Linux"
    /\ devices = <<>>
    /\ scan_callbacks = <<>>
    /\ pc = "idle"
    /\ di = 1
    /\ ci = 1
    /\ detected = <<>>
    /\ notified = <<>>
    /\ returned = NoReturn
    /\ hadDevices = FALSE
    /\ held = NoDevice
    /\ last = NoCall
    /\ probe \in {Named(words, vendor_name) :
                     words \in SeqsUpTo(Vocabulary, MaxWords), vendor_name \in VendorNames}
    /\ out = NoOut
    /\ ObjectsAside

\* self._classify_device(product_name, vendor_name), as _get_device_info
\* calls it.
Classify ==
    /\ probe.kind = "name"
    /\ out' = [op |-> "_classify_device",
               result |-> _classify_device(probe.product_name, probe.vendor_name)]
    /\ UNCHANGED <<platform, scanVars, held, last, probe, objVars>>

\* self._classify_device_by_name(name), as the fallback parsers call it.
ClassifyByName ==
    /\ probe.kind = "name"
    /\ out' = [op |-> "_classify_device_by_name",
               result |-> _classify_device_by_name(probe.product_name)]
    /\ UNCHANGED <<platform, scanVars, held, last, probe, objVars>>

NextClassify ==
    \/ Classify
    \/ ClassifyByName

SpecClassify == InitClassify /\ [][NextClassify]_vars

\* ------------------- SpecUSB: a USB detector, constructed and then asked

NotConstructed == "unconstructed"

\* A device of the enumeration as the detector reads it: its descriptor
\* fields, the product string (or that usb.util.get_string raises), the
\* interface classes its configurations give, and whether reading it raises
\* in _is_wireless_device ("relevance"), in _get_device_info ("info") or not
\* at all ("none").
RawDevice(idVendor, idProduct, bus, address, has_bDeviceClass, bDeviceClass,
          interfaces, product, raises_in) ==
    [idVendor |-> idVendor, idProduct |-> idProduct, bus |-> bus, address |-> address,
     has_bDeviceClass |-> has_bDeviceClass, bDeviceClass |-> bDeviceClass,
     interfaces |-> interfaces, product |-> product, raises_in |-> raises_in]

\* A Logitech receiver; a Realtek adapter that cannot be read for the test; a
\* Realtek adapter that cannot be read for its record; a flash drive; and a
\* Bluetooth radio of an unlisted vendor whose product string cannot be read.
RawDevices ==
    {RawDevice(1133, 50475, 1, 4, TRUE, 0, <<3>>, "Unifying Receiver", "none"),
     RawDevice(3034, 33142, 1, 5, TRUE, 0, <<255>>, "802.11n WLAN Adapter", "relevance"),
     RawDevice(3034, 33142, 2, 3, TRUE, 0, <<255>>, "802.11n WLAN Adapter", "info"),
     RawDevice(1921, 21889, 2, 7, TRUE, 0, <<8>>, "Ultra Flash Drive", "none"),
     RawDevice(2578, 1, 3, 2, FALSE, 0, <<224>>, "raises", "none")}

\* A completed fallback of the platform with one line (the Bluetooth dongle
\* or the root hub) or one device.
USBFallbackSamples(p) ==
    {f \in USBFallbackProbes(p) :
        IF p = "Linux"
        THEN ~f.lsusb.raised /\ f.lsusb.returncode = 0 /\ Len(f.lsusb.lines) = 1
               /\ f.lsusb.lines[1].tokens[6] \in {"0a12:0001", "1d6b:0002"}
        ELSE IF p \in {"Windows", "Darwin"}
             THEN ~f.block.raised /\ Len(f.block.devices) = 1
                    /\ (p = "Windows" => f.wmi)
             ELSE TRUE}

\* The operating system as a USB detector finds it: whether the usb module
\* was imported, what the enumeration gives and whether it then raises, and
\* what the platform's fallback finds.
USBSystems(p) ==
    {s \in {[kind |-> "usb", usb |-> usb, usb_devices |-> usb_devices,
             find_raises |-> find_raises] @@ f :
               usb \in BOOLEAN, usb_devices \in SeqsUpTo(RawDevices, MaxEnumerated),
               find_raises \in BOOLEAN, f \in USBFallbackSamples(p)} :
        s.usb \/ (s.usb_devices = <<>> /\ ~s.find_raises)}

InitUSB ==
    /\ platform \in Platforms
    /\ devices = <<>>
    /\ scan_callbacks = <<>>
    /\ pc = "idle"
    /\ di = 1
    /\ ci = 1
    /\ detected = <<>>
    /\ notified = <<>>
    /\ returned = NoReturn
    /\ hadDevices = FALSE
    /\ held = NoDevice
    /\ last = NoCall
    /\ probe \in USBSystems(platform)
    /\ out = NoOut
    /\ usb_backend = NotConstructed
    /\ OverlapAside
    /\ MonitorAside

\* USBWirelessDetector(): answers[k] is what the k-th get_backend() does when
\* it is called.
ConstructUSB(answers) ==
    /\ usb_backend = NotConstructed
    /\ LET r == _initialize_backend(probe.usb, answers)
       IN  /\ usb_backend' = r.backend
           /\ out' = [op |-> "__init__", answers |-> answers, tried |-> r.tried]
    /\ UNCHANGED <<platform, scanVars, held, last, probe, overlapVars, monitorVars>>

\* detector.detect_devices()
DetectUSB ==
    /\ usb_backend # NotConstructed
    /\ out' = Detected(USBWirelessDetector_detect(usb_backend, platform, probe))
    /\ UNCHANGED <<platform, scanVars, held, last, probe, objVars>>

NextUSB ==
    \/ \E answers \in [1..Len(backends) -> BackendAnswers] : ConstructUSB(answers)
    \/ DetectUSB

SpecUSB == InitUSB /\ [][NextUSB]_vars

\* ----------- SpecProfiler: the macOS parsers on system_profiler's output

\* Lines `system_profiler SPBluetoothDataType` can write: two device names, an
\* address, another property, a blank line.
BluetoothProfilerLines ==
    {Line("          ", " ", <<"MyPhone">>),
     Line("          ", " ", <<"Magic", "Mouse">>),
     Line("              ", " ", <<"Address:", "AA-BB-CC-DD-EE-FF">>),
     Line("              ", " ", <<"Paired:", "Yes">>),
     Line("", " ", <<>>)}

\* n property lines one after the other.
PropertyLines(n) == [k \in 1..n |-> Line("              ", " ", <<"Paired:", "Yes">>)]

\* Outputs of up to MaxProfiled lines, with up to MaxPadding property lines
\* put between two of them.
BluetoothProfilerOutputs ==
    {s[1] \o PropertyLines(s[3]) \o s[2] :
        s \in {c \in SeqsUpTo(BluetoothProfilerLines, MaxProfiled)
                       \X SeqsUpTo(BluetoothProfilerLines, MaxProfiled)
                       \X (0..MaxPadding) :
                  Len(c[1]) + Len(c[2]) <= MaxProfiled}}

\* Lines `system_profiler SPUSBDataType` can write: the headers of two
\* wireless devices and of a hub, the two ID lines, another property, a blank
\* line.
WirelessHeaders ==
    {Line("        ", " ", <<"Bluetooth", "USB", "Host", "Controller:">>),
     Line("        ", " ", <<"Wireless", "Headset:">>)}

USBProfilerLines ==
    WirelessHeaders
      \cup {Line("        ", " ", <<"USB3.0", "Hub:">>),
            Line("          ", " ", <<"Product", "ID:", "0x0a29">>),
            Line("          ", " ", <<"Vendor", "ID:", "0x046d", "(Logitech", "Inc.)">>),
            Line("          ", " ", <<"Speed:", "Up", "to", "12", "Mb/s">>),
            Line("", " ", <<>>)}

\* What the run of system_profiler can do.
ProfilerRuns(outputs) ==
    {RunRaised, Completed(1, <<>>)} \cup {Completed(0, lines) : lines \in outputs}

InitProfiler ==
    /\ platform = "Darwin"
    /\ devices = <<>>
    /\ scan_callbacks = <<>>
    /\ pc = "idle"
    /\ di = 1
    /\ ci = 1
    /\ detected = <<>>
    /\ notified = <<>>
    /\ returned = NoReturn
    /\ hadDevices = FALSE
    /\ held = NoDevice
    /\ last = NoCall
    /\ probe \in {[kind |-> "SPBluetoothDataType", profiler |-> run] :
                     run \in ProfilerRuns(BluetoothProfilerOutputs)}
                   \cup {[kind |-> "SPUSBDataType", profiler |-> run] :
                            run \in ProfilerRuns(SeqsUpTo(USBProfilerLines, MaxProfiled))}
    /\ out = NoOut
    /\ ObjectsAside

\* BluetoothDetector().detect_devices() on macOS.
ProfilerBluetoothDetect ==
    /\ probe.kind = "SPBluetoothDataType"
    /\ out' = Detected(BluetoothDetector_detect_devices(
                          platform, [block |-> _detect_macos_bluetooth_try(probe.profiler)]))
    /\ UNCHANGED <<platform, scanVars, held, last, probe, objVars>>

\* detect_devices() of a USBWirelessDetector without backend on macOS.
ProfilerUSBDetect ==
    /\ probe.kind = "SPUSBDataType"
    /\ out' = Detected(USBWirelessDetector_detect_devices(
                          platform,
                          [backend |-> FALSE, structured |-> BlockDone(<<>>),
                           block |-> _detect_macos_usb_fallback_try(probe.profiler)]))
    /\ UNCHANGED <<platform, scanVars, held, last, probe, objVars>>

NextProfiler ==
    \/ ProfilerBluetoothDetect
    \/ ProfilerUSBDetect

SpecProfiler == InitProfiler /\ [][NextProfiler]_vars

\* ------------- SpecOverlap: scan_devices() calls that overlap in time

\* The scan threads the window has started: WirelessGUI.scan_devices starts
\* one at every request (the button, the auto-refresh timer and toggle, the
\* refresh after an enable or disable) and keeps no record of one running.
ScanThreads == {1, 2}

\* The k-th device object the detector's detect_devices() made in a scan
\* thread's call: every call makes new WirelessDevice objects.
DeviceObject(thread, detector, k) == [scan |-> thread, detector |-> detector, n |-> k]

\* What one detect_devices() call of a scan thread does: it raises, or gives a
\* list of new device objects.
OverlapOutcomes(thread, detector) ==
    {[raised |-> TRUE, out |-> <<>>]}
      \cup {[raised |-> FALSE, out |-> [k \in 1..n |-> DeviceObject(thread, detector, k)]] :
               n \in 0..MaxFound}

\* A scan thread that has not been started.
NotStarted ==
    [pc |-> "unstarted", di |-> 1, ci |-> 1, detected_devices |-> <<>>, ref |-> 0,
     found |-> <<>>, notified |-> <<>>, returned |-> NoReturn]

\* WirelessDeviceManager.__init__: self.devices names the first list object;
\* the window registers no observer, one is registered here so that the
\* second loop is gone through.
InitOverlap ==
    /\ platform \in {"Linux"}
    /\ devices = <<>>
    /\ scan_callbacks = <<1>>
    /\ pc = "idle"
    /\ di = 1
    /\ ci = 1
    /\ detected = <<>>
    /\ notified = <<>>
    /\ returned = NoReturn
    /\ hadDevices = FALSE
    /\ held = NoDevice
    /\ last = NoCall
    /\ probe = NoProbe
    /\ out = NoOut
    /\ usb_backend = Aside
    /\ MonitorAside
    /\ lists = << <<>> >>
    /\ bound = 1
    /\ scans = [t \in ScanThreads |-> NotStarted]

OverlapFrame ==
    UNCHANGED <<platform, scan_callbacks, pc, di, ci, detected, notified, returned,
                hadDevices, held, last, probeVars, usb_backend, monitorVars>>

\* Where a scan thread goes after the pass of the first loop at detector di.
AfterDetector(scan) ==
    IF scan.di < Len(detectors)
    THEN [scan EXCEPT !.di = scan.di + 1, !.pc = "detect"]
    ELSE [scan EXCEPT !.pc = "notify"]

\* WirelessGUI.scan_devices: threading.Thread(target=self._scan_thread).start()
StartScanThread(t) ==
    /\ scans[t].pc = "unstarted"
    /\ scans' = [scans EXCEPT ![t].pc = "entry"]
    /\ UNCHANGED <<devices, lists, bound>>
    /\ OverlapFrame

\* self.devices = []: a new list object is made and the attribute names it.
OverlapClear(t) ==
    /\ scans[t].pc = "entry"
    /\ lists' = Append(lists, <<>>)
    /\ bound' = Len(lists) + 1
    /\ devices' = <<>>
    /\ scans' = [scans EXCEPT ![t].pc = "detect"]
    /\ OverlapFrame

\* detected_devices = detector.detect_devices(); a raise is caught and the
\* loop goes on to the next detector.
OverlapDetect(t, outcome) ==
    /\ scans[t].pc = "detect"
    /\ scans' = [scans EXCEPT ![t] =
                    IF outcome.raised
                    THEN AfterDetector(scans[t])
                    ELSE [scans[t] EXCEPT !.pc = "extend",
                                          !.detected_devices = outcome.out,
                                          !.found = extend(scans[t].found, outcome.out)]]
    /\ UNCHANGED <<devices, lists, bound>>
    /\ OverlapFrame

\* self.devices.extend(detected_devices), the attribute read: the list the
\* attribute names now is the one extend will be called on.
OverlapLoadExtend(t) ==
    /\ scans[t].pc = "extend"
    /\ scans' = [scans EXCEPT ![t].pc = "extending", ![t].ref = bound]
    /\ UNCHANGED <<devices, lists, bound>>
    /\ OverlapFrame

\* self.devices.extend(detected_devices), the call of list.extend.
OverlapExtend(t) ==
    /\ scans[t].pc = "extending"
    /\ lists' = [lists EXCEPT ![scans[t].ref] = extend(lists[scans[t].ref], scans[t].detected_devices)]
    /\ bound' = bound
    /\ devices' = lists'[bound]
    /\ scans' = [scans EXCEPT ![t] = AfterDetector(scans[t])]
    /\ OverlapFrame

\* callback(self.devices), the attribute read.
OverlapLoadNotify(t) ==
    /\ scans[t].pc = "notify"
    /\ scans[t].ci <= Len(scan_callbacks)
    /\ scans' = [scans EXCEPT ![t].pc = "notifying", ![t].ref = bound]
    /\ UNCHANGED <<devices, lists, bound>>
    /\ OverlapFrame

\* callback(self.devices), the call: the observer is handed the list read and
\* sees what it holds now; a raise is caught and the loop goes on.
OverlapNotify(t, cbRaises) ==
    /\ scans[t].pc = "notifying"
    /\ scans' = [scans EXCEPT ![t].pc = "notify",
                              ![t].ci = scans[t].ci + 1,
                              ![t].notified = Append(scans[t].notified,
                                  [callback |-> scan_callbacks[scans[t].ci],
                                   list |-> scans[t].ref, arg |-> lists[scans[t].ref],
                                   raised |-> cbRaises])]
    /\ UNCHANGED <<devices, lists, bound>>
    /\ OverlapFrame

\* return self.devices: the list the attribute names now, holding what it
\* holds now.
OverlapReturn(t) ==
    /\ scans[t].pc = "notify"
    /\ scans[t].ci > Len(scan_callbacks)
    /\ scans' = [scans EXCEPT ![t].pc = "done", ![t].ref = bound,
                              ![t].returned = Returned(lists[bound])]
    /\ UNCHANGED <<devices, lists, bound>>
    /\ OverlapFrame

NextOverlap ==
    \E t \in ScanThreads :
        \/ StartScanThread(t)
        \/ OverlapClear(t)
        \/ \E outcome \in OverlapOutcomes(t, detectors[scans[t].di]) : OverlapDetect(t, outcome)
        \/ OverlapLoadExtend(t)
        \/ OverlapExtend(t)
        \/ OverlapLoadNotify(t)
        \/ \E cbRaises \in BOOLEAN : OverlapNotify(t, cbRaises)
        \/ OverlapReturn(t)

SpecOverlap == InitOverlap /\ [][NextOverlap]_vars

\* ------------- SpecMonitor: the SystemMonitor, started and stopped

\* SystemMonitor._monitor_thread is None; the cached _system_info is None.
NoThread == 0

\* A thread running _monitor_loop, as threading.Thread.start() leaves it: at
\* the loop's test.  stopped: a stop_monitoring() call has been made while the
\* thread was alive; resumed: the loop's test was passed after that.
NewLoop == [pc |-> "while", stopped |-> FALSE, resumed |-> FALSE]

\* SystemMonitor.__init__
InitMonitor ==
    /\ platform \in {"Linux"}
    /\ devices = <<>>
    /\ scan_callbacks = <<>>
    /\ pc = "idle"
    /\ di = 1
    /\ ci = 1
    /\ detected = <<>>
    /\ notified = <<>>
    /\ returned = NoReturn
    /\ hadDevices = FALSE
    /\ held = NoDevice
    /\ last = NoCall
    /\ probe = NoProbe
    /\ out = NoOut
    /\ usb_backend = Aside
    /\ OverlapAside
    /\ monitor = [_monitoring |-> FALSE, _monitor_thread |-> NoThread,
                  _callbacks |-> <<>>, _system_info |-> NoThread]
    /\ threads = [caller |-> "idle", loops |-> <<>>]

MonitorFrame ==
    UNCHANGED <<platform, scanVars, held, probeVars, usb_backend, overlapVars>>

\* start_monitoring(callback): nothing when already monitoring; else the
\* callback, when given, is added, the flag is set and a new thread running
\* _monitor_loop is made, kept in _monitor_thread and started.
start_monitoring(callback) ==
    /\ threads.caller = "idle"
    /\ IF monitor._monitoring
       THEN /\ last' = [op |-> "start_monitoring", started |-> FALSE]
            /\ UNCHANGED <<monitor, threads>>
       ELSE /\ Len(threads.loops) < MaxLoops
            /\ monitor' = [monitor EXCEPT
                              !._callbacks = IF callback # None THEN Append(@, callback) ELSE @,
                              !._monitoring = TRUE,
                              !._monitor_thread = Len(threads.loops) + 1]
            /\ threads' = [threads EXCEPT !.loops = Append(@, NewLoop)]
            /\ last' = [op |-> "start_monitoring", started |-> TRUE]
    /\ MonitorFrame

\* stop_monitoring(), up to the join: the flag is cleared; with a thread in
\* _monitor_thread the caller waits in join(timeout=1.0).
stop_monitoring ==
    /\ threads.caller = "idle"
    /\ monitor' = [monitor EXCEPT !._monitoring = FALSE]
    /\ threads' = [caller |-> IF monitor._monitor_thread # NoThread THEN "joining" ELSE "idle",
                   loops |-> [l \in 1..Len(threads.loops) |->
                                 IF threads.loops[l].pc # "ended"
                                 THEN [threads.loops[l] EXCEPT !.stopped = TRUE]
                                 ELSE threads.loops[l]]]
    /\ last' = [op |-> "stop_monitoring", joined |-> FALSE]
    /\ MonitorFrame

\* stop_monitoring(), join(timeout=1.0) returns: the thread has ended, or the
\* second has passed with the thread alive inside the loop's body (it sleeps
\* interval = 2.0 seconds between two tests of the flag, and sampling runs
\* system commands); _monitor_thread = None either way.
stop_monitoring_join(timed_out) ==
    /\ threads.caller = "joining"
    /\ IF timed_out
       THEN threads.loops[monitor._monitor_thread].pc \in {"sample", "notify", "sleep"}
       ELSE threads.loops[monitor._monitor_thread].pc = "ended"
    /\ monitor' = [monitor EXCEPT !._monitor_thread = NoThread]
    /\ threads' = [threads EXCEPT !.caller = "idle"]
    /\ last' = [op |-> "stop_monitoring", joined |-> ~timed_out]
    /\ MonitorFrame

\* while self._monitoring
LoopTest(l) ==
    /\ threads.loops[l].pc = "while"
    /\ threads' = [threads EXCEPT !.loops[l] =
                      IF monitor._monitoring
                      THEN [@ EXCEPT !.pc = "sample", !.resumed = @ \/ threads.loops[l].stopped]
                      ELSE [@ EXCEPT !.pc = "ended"]]
    /\ UNCHANGED <<monitor, last>>
    /\ MonitorFrame

\* get_system_info(), get_battery_info() and the two cached fields written;
\* an exception goes to the outer except, which sleeps.
LoopSample(l, raises) ==
    /\ threads.loops[l].pc = "sample"
    /\ monitor' = IF raises THEN monitor ELSE [monitor EXCEPT !._system_info = l]
    /\ threads' = [threads EXCEPT !.loops[l].pc = IF raises THEN "sleep" ELSE "notify"]
    /\ UNCHANGED last
    /\ MonitorFrame

\* for callback in self._callbacks: callback(system_info, battery_info), each
\* in its own try.
LoopNotify(l) ==
    /\ threads.loops[l].pc = "notify"
    /\ threads' = [threads EXCEPT !.loops[l].pc = "sleep"]
    /\ UNCHANGED <<monitor, last>>
    /\ MonitorFrame

\* time.sleep(interval) returns.
LoopSleep(l) ==
    /\ threads.loops[l].pc = "sleep"
    /\ threads' = [threads EXCEPT !.loops[l].pc = "while"]
    /\ UNCHANGED <<monitor, last>>
    /\ MonitorFrame

\* The callback a caller passes: none, or one told apart by the order of
\* registration.
MonitorCallbacks == {None, "on_system_update"}

NextMonitor ==
    \/ \E callback \in MonitorCallbacks : start_monitoring(callback)
    \/ stop_monitoring
    \/ \E timed_out \in BOOLEAN : stop_monitoring_join(timed_out)
    \/ \E l \in 1..Len(threads.loops) :
          \/ LoopTest(l)
          \/ \E raises \in BOOLEAN : LoopSample(l, raises)
          \/ LoopNotify(l)
          \/ LoopSleep(l)

SpecMonitor == InitMonitor /\ [][NextMonitor]_vars

\* ------------------------------------------------------------ properties

ManageOps == {"enable", "disable"}

\* The status a successful call of the operation leaves.
TargetStatus(op) == IF op = "enable" THEN ENABLED_STATUS ELSE DISABLED

\* C3: after manager.enable_device(d), a true result means d.status is
\* Enabled and a false result means d.status is what it was before the call;
\* likewise disable_device and Disabled.  For every device type and every
\* prior status.
C3_StatusFollowsResult ==
    last.op \in ManageOps =>
        /\ last.success => held.status = TargetStatus(last.op)
        /\ ~last.success => held.status = last.device.status

\* C3 witness: a disable that succeeded on a device whose status was Paired,
\* and so changed it.
C3_Witness ==
    /\ last.op = "disable"
    /\ last.success
    /\ last.device.status = PAIRED
    /\ held.status = DISABLED

\* The detectors, by position in the fixed order, that claim device d.
Claimers(d) == {k \in 1..Len(detectors) : DetCanManage(detectors[k], d)}

FirstClaimer(d) == CHOOSE k \in Claimers(d) : \A j \in Claimers(d) : k <= j

\* C4: enable_device / disable_device invokes the operation on exactly one
\* detector, the first in the order Bluetooth, USB, Network that claims the
\* device, and on no later one even when it fails; the manager's result is
\* that detector's result; when no detector claims the device none is invoked
\* and the result is false.
C4_FirstClaimerOnly ==
    last.op \in ManageOps =>
        IF Claimers(last.device) = {}
        THEN last.calls = <<>> /\ last.success = FALSE
        ELSE /\ Len(last.calls) = 1
             /\ last.calls[1].detector = detectors[FirstClaimer(last.device)]
             /\ last.success = last.calls[1].result

\* C4 witness: a WiFi adapter, claimed by the USB detector and by the Network
\* detector: the USB detector was invoked and failed, the Network detector
\* was not invoked.
C4_Witness ==
    /\ last.op = "enable"
    /\ Claimers(last.device) = {2, 3}
    /\ Len(last.calls) = 1
    /\ last.calls[1].detector = "USBWirelessDetector"
    /\ last.calls[1].result = FALSE
    /\ platform = "Linux"

\* The device types each detector is documented to manage.
DocumentedTypes(det) ==
    CASE det = "BluetoothDetector" -> {BLUETOOTH}
      [] det = "USBWirelessDetector" -> {RF_DONGLE, WIFI_ADAPTER}
      [] det = "NetworkWirelessDetector" -> {WIFI_ADAPTER}

\* C9: a detector's can_manage_device(d) is true exactly when d.device_type
\* is in the detector's documented set, for every device (those the detector
\* builds itself included); two devices of one type get one answer; and the
\* call leaves the device as it was.
C9_CanManageByType ==
    /\ \A k \in 1..Len(detectors) :
          /\ DetCanManage(detectors[k], held) <=>
                 held.device_type \in DocumentedTypes(detectors[k])
          /\ \A d \in HeldDevices :
                 d.device_type = held.device_type =>
                     (DetCanManage(detectors[k], d) <=> DetCanManage(detectors[k], held))
    /\ last.op = "det_can_manage" =>
          /\ last.success <=> last.device.device_type \in DocumentedTypes(last.calls[1].detector)
          /\ held = last.device

\* C9 witness: the USB detector asked about a WiFi adapter it built itself.
C9_Witness ==
    /\ last.op = "det_can_manage"
    /\ last.calls[1].detector = "USBWirelessDetector"
    /\ last.device \in USBEmits(platform)
    /\ last.device.device_type = WIFI_ADAPTER
    /\ last.success

ManageableTypes == {BLUETOOTH, RF_DONGLE, WIFI_ADAPTER}

\* C10: manager.can_manage_device(d) is true exactly when some detector's
\* can_manage_device(d) is, that is when d is a Bluetooth, RF dongle or WiFi
\* adapter device; and enable_device / disable_device return true only for
\* devices the manager can manage.
C10_ManageableOnly ==
    /\ last.op = "can_manage" =>
          /\ last.success <=> Claimers(last.device) # {}
          /\ last.success <=> last.device.device_type \in ManageableTypes
    /\ (last.op \in ManageOps /\ last.success) =>
          /\ can_manage_device(last.device)
          /\ last.device.device_type \in ManageableTypes

\* C10 witness: an enable that returned true.
C10_Witness ==
    /\ last.op = "enable"
    /\ last.success
    /\ can_manage_device(last.device)

\* The lists the detectors of a scan returned, concatenated in call order; a
\* detector that raised adds nothing.
RECURSIVE ConcatOuts(_)
ConcatOuts(log) ==
    IF log = <<>> THEN <<>>
    ELSE ConcatOuts(SubSeq(log, 1, Len(log) - 1))
           \o (IF log[Len(log)].raised THEN <<>> ELSE log[Len(log)].out)

\* The sum of the lengths of the lists the detectors of a scan returned.
RECURSIVE SumLens(_)
SumLens(log) ==
    IF log = <<>> THEN 0
    ELSE SumLens(SubSeq(log, 1, Len(log) - 1))
           + (IF log[Len(log)].raised THEN 0 ELSE Len(log[Len(log)].out))

\* scan_devices() has returned and no other scan has begun.
Scanned == pc = "idle" /\ returned.kind = "value"

\* C1: the collection scan_devices() returns, and the live collection after
\* the call, are as long as the three detect_devices() results of that call
\* together: nothing is deduplicated.
C1_LengthIsSum ==
    Scanned =>
        /\ Len(detected) = Len(detectors)
        /\ Len(returned.value) = SumLens(detected)
        /\ Len(devices) = SumLens(detected)

\* C1 witness: the USB detector returned the same WiFi adapter record twice
\* and the Network detector reported a WiFi adapter as well; the scan returned
\* all three.
C1_Witness ==
    /\ Scanned
    /\ Len(detected[2].out) = 2
    /\ detected[2].out[1] = detected[2].out[2]
    /\ detected[2].out[1].device_type = WIFI_ADAPTER
    /\ Len(detected[3].out) = 1
    /\ Len(returned.value) = 3
    /\ returned.value[1] = returned.value[2]
    /\ Len(devices) = 3

\* C2: a detector whose detect_devices() raises adds no device, every other
\* detector, before and after it in the order, has all of its devices in the
\* result, and scan_devices() does not raise.
C2_RaisingDetectorOmitted ==
    /\ returned # ScanRaised
    /\ Scanned =>
          /\ Len(detected) = Len(detectors)
          /\ \A k \in 1..Len(detected) : detected[k].detector = detectors[k]
          /\ returned.value = ConcatOuts(detected)

\* C2 witness: the USB detector raised, the Bluetooth detector before it and
\* the Network detector after it each have their device in the result.
C2_Witness ==
    /\ Scanned
    /\ detected[2].raised
    /\ Len(detected[1].out) > 0
    /\ Len(detected[3].out) > 0
    /\ returned.value = detected[1].out \o detected[3].out

\* C5: when scan_devices() returns, every registered observer has been called
\* once, in registration order, with the full new collection, also when an
\* observer raised; the exception does not leave scan_devices() and the
\* collection returned is the one gathered.
C5_ObserversNotified ==
    [][(pc = "notify" /\ pc' = "idle") =>
          /\ returned' = Returned(devices)
          /\ returned' = Returned(ConcatOuts(detected))
          /\ Len(notified') = Len(scan_callbacks)
          /\ \A i \in 1..Len(notified') :
                /\ notified'[i].callback = scan_callbacks[i]
                /\ Returned(notified'[i].arg) = returned']_vars

\* C5 witness: the first of two observers raised, the second was still called
\* with the collection, and the scan returned it.
C5_Witness ==
    /\ Scanned
    /\ Len(notified) = 2
    /\ notified[1].raised
    /\ notified[2].callback = scan_callbacks[2]
    /\ notified[2].arg = returned.value
    /\ Len(returned.value) > 0

\* C6, the order within one scan: detect_devices() is called once per
\* detector in the order Bluetooth, USB, Network; the collection is the
\* results concatenated in that order; no observer is called before the third
\* detector has finished.
C6_Order ==
    /\ Len(detected) <= Len(detectors)
    /\ \A k \in 1..Len(detected) : detected[k].detector = detectors[k]
    /\ pc = "detect" => Len(detected) = di - 1 /\ notified = <<>>
    /\ pc = "notify" => Len(detected) = Len(detectors)
    /\ Len(notified) > 0 => Len(detected) = Len(detectors)
    /\ pc # "idle" => devices = ConcatOuts(detected)
    /\ Scanned => Len(detected) = Len(detectors) /\ returned.value = ConcatOuts(detected)

\* C6: the order within one scan holds throughout, and a scan that has begun
\* returns, every detect_devices() and observer call returning or raising.
C6_OrderAndReturn == []C6_Order /\ ((pc # "idle") ~> (pc = "idle"))

\* C6 witness: the Bluetooth detector returned two different devices and the
\* USB detector one, an observer was called, and the scan returned the three
\* in that order.
C6_Witness ==
    /\ Scanned
    /\ Len(detected[1].out) = 2
    /\ detected[1].out[1] # detected[1].out[2]
    /\ Len(detected[2].out) = 1
    /\ Len(notified) > 0
    /\ returned.value = <<detected[1].out[1], detected[1].out[2], detected[2].out[1]>>

\* Two collections hold the same devices in the same order, the status field
\* apart (enable_device and disable_device write it).
SameDevices(a, b) ==
    /\ Len(a) = Len(b)
    /\ \A i \in 1..Len(a) : a[i] = [b[i] EXCEPT !.status = a[i].status]

\* C7: after any sequence of scans the live collection holds exactly the
\* devices the detectors produced in the latest scan, none of an earlier one.
C7_ReplacedPerScan ==
    /\ pc # "idle" => devices = ConcatOuts(detected)
    /\ pc = "idle" => SameDevices(devices, ConcatOuts(detected))

\* C7 witness: a scan that began with devices in the collection, in which a
\* detector raised and no detector returned a device, left it empty.
C7_Witness ==
    /\ Scanned
    /\ hadDevices
    /\ \E k \in 1..Len(detected) : detected[k].raised
    /\ devices = <<>>

\* C8: a call made between scans (enable_device, disable_device,
\* add_scan_callback) keeps the collection's length and order, changes at
\* most one device record and of that record only the status; a call that
\* changes a record leaves the observer list alone.
C8_Frame ==
    [][(pc = "idle" /\ pc' = "idle") =>
          /\ Len(devices') = Len(devices)
          /\ \A i \in 1..Len(devices) :
                devices'[i] = [devices[i] EXCEPT !.status = devices'[i].status]
          /\ Cardinality({i \in 1..Len(devices) : devices'[i] # devices[i]}) <= 1
          /\ devices' # devices =>
                /\ scan_callbacks' = scan_callbacks
                /\ UNCHANGED <<detected, notified, returned, platform>>]_vars

\* C8 witness: in a collection of three devices, two of them equal, one has
\* been disabled and the record equal to it has not.
C8_Witness ==
    /\ Scanned
    /\ Len(devices) = 3
    /\ returned.value[1] = returned.value[2]
    /\ devices[1].status = DISABLED
    /\ devices[2] = returned.value[2]
    /\ devices[3] = returned.value[3]
    /\ returned.value[1].status # DISABLED

\* The live collection read as the queries read it.
Positions == 1..Len(devices)
OfType(device_type) == {i \in Positions : devices[i].device_type = device_type}
OfStatus(status) == {i \in Positions : devices[i].status = status}

\* C11: in every collection that scans and enable/disable calls lead to,
\* get_device_statistics() has no by-type bucket and no by-status bucket whose
\* count is zero.
C11_NoZeroBucket ==
    LET stats == get_device_statistics(devices)
    IN  /\ \A t \in DOMAIN stats.by_type : stats.by_type[t] > 0
        /\ \A s \in DOMAIN stats.by_status : stats.by_status[s] > 0

\* A scanned collection of at least two devices in which some types and some
\* statuses do not occur, one device having been disabled since the scan.
C11_Witness ==
    /\ returned.kind = "value"
    /\ Len(devices) >= 2
    /\ devices # returned.value
    /\ OfStatus(DISABLED) # {}
    /\ OfType(WIRELESS_AUDIO) = {}
    /\ OfStatus(DISCOVERABLE) = {}
    /\ DOMAIN get_device_statistics(devices).by_status # DeviceStatus

RECURSIVE SumOf(_, _)
SumOf(f, keys) ==
    IF keys = {} THEN 0
    ELSE LET k == CHOOSE x \in keys : TRUE
         IN  f[k] + SumOf(f, keys \ {k})

\* C12: get_device_statistics() gives the collection's length as the total,
\* for each type and status that occurs the number of devices that have it
\* (so both groups of counts sum to the total), and as manageable the number
\* of devices some detector claims; this also after a device of the
\* collection was enabled or disabled.
C12_StatisticsCount ==
    LET stats == get_device_statistics(devices)
    IN  /\ stats.total_devices = Len(devices)
        /\ DOMAIN stats.by_type = {t \in DeviceType : OfType(t) # {}}
        /\ DOMAIN stats.by_status = {s \in DeviceStatus : OfStatus(s) # {}}
        /\ \A t \in DOMAIN stats.by_type : stats.by_type[t] = Cardinality(OfType(t))
        /\ \A s \in DOMAIN stats.by_status : stats.by_status[s] = Cardinality(OfStatus(s))
        /\ SumOf(stats.by_type, DOMAIN stats.by_type) = stats.total_devices
        /\ SumOf(stats.by_status, DOMAIN stats.by_status) = stats.total_devices
        /\ stats.manageable = Cardinality({i \in Positions : can_manage_device(devices[i])})

\* A collection with a device no detector claims and one whose status a
\* successful disable_device changed after the scan: the Disabled bucket
\* counts a device the scan did not return as Disabled.
C12_Witness ==
    /\ returned.kind = "value"
    /\ Len(devices) = MaxProbed
    /\ \E i \in Positions : ~can_manage_device(devices[i])
    /\ \E i \in Positions : /\ devices[i].status = DISABLED
                            /\ returned.value[i].status = ENABLED_STATUS
    /\ get_device_statistics(devices).manageable = Len(devices) - 1
    /\ get_device_statistics(devices).by_status[DISABLED] = 1

\* C14: a scan made when the live collection is what the previous scan
\* returned (nothing enabled or disabled since), against the same operating
\* system, returns and leaves a collection equal to the previous one, device by
\* device and in the same order, whatever the collection held before the
\* previous scan.
C14_SameStateSameScan ==
    [][(ScanAll /\ returned.kind = "value" /\ devices = returned.value)
          => (returned' = returned /\ devices' = devices)]_vars

\* A second scan has returned: the collection was not empty when it began,
\* and it holds devices of two detectors.
C14_Witness ==
    /\ returned.kind = "value"
    /\ hadDevices
    /\ devices = returned.value
    /\ Len(devices) >= 2
    /\ \E i, j \in Positions : devices[i].device_type # devices[j].device_type

\* The names and MAC addresses a caller asks for: those in the collection and
\* one that is in no collection.
AskedNames == {devices[i].name : i \in Positions} \cup {"no such device"}
AskedMacs == {devices[i].mac_address : i \in Positions} \cup {"00:00:00:00:00:00"}

\* The positions, lowest first, as a sequence.
RECURSIVE InOrder(_)
InOrder(S) ==
    IF S = {} THEN <<>>
    ELSE LET m == CHOOSE x \in S : \A y \in S : x <= y
         IN  <<m>> \o InOrder(S \ {m})

FirstAt(S) == CHOOSE x \in S : \A y \in S : x <= y

\* C20: get_devices_by_type / get_devices_by_status give exactly the devices
\* of the collection with that type / status, in the collection's order;
\* get_device_by_name / get_device_by_mac give the first device of the
\* collection with exactly that name / MAC address, and None when there is
\* none; this also after a device of the collection was enabled or disabled.
C20_QueriesMatch ==
    /\ \A t \in DeviceType :
          get_devices_by_type(devices, t)
             = [k \in 1..Cardinality(OfType(t)) |-> devices[InOrder(OfType(t))[k]]]
    /\ \A s \in DeviceStatus :
          get_devices_by_status(devices, s)
             = [k \in 1..Cardinality(OfStatus(s)) |-> devices[InOrder(OfStatus(s))[k]]]
    /\ \A n \in AskedNames :
          LET at == {i \in Positions : devices[i].name = n}
          IN  get_device_by_name(devices, n)
                 = IF at = {} THEN NotFound ELSE Found(devices[FirstAt(at)])
    /\ \A m \in AskedMacs :
          LET at == {i \in Positions : devices[i].mac_address = m}
          IN  get_device_by_mac(devices, m)
                 = IF at = {} THEN NotFound ELSE Found(devices[FirstAt(at)])

\* Two devices with one MAC address that differ otherwise, and two devices of
\* one status of which the first got that status from a successful
\* disable_device after the scan.
C20_Witness ==
    /\ returned.kind = "value"
    /\ \E i, j \in Positions :
          /\ i < j
          /\ devices[i].mac_address = devices[j].mac_address
          /\ devices[i].mac_address # None
          /\ devices[i] # devices[j]
    /\ \E i, j \in Positions :
          /\ i < j
          /\ devices[i].status = DISABLED
          /\ devices[j].status = DISABLED
          /\ returned.value[i].status # DISABLED
          /\ devices[i] # devices[j]
    /\ Len(get_devices_by_status(devices, DISABLED)) >= 2

\* A detect_devices() call has been made of the detector on the platform.
Detects(det, p) ==
    out.op = "detect_devices" /\ probe.kind = det /\ platform = p

\* The lines of a run's output the parser gets to read: those of a run that
\* completed with status 0.
Listing(run) == IF ~run.raised /\ run.returncode = 0 THEN run.lines ELSE <<>>

\* What the lines of a bluetoothctl listing stand for: each line whose first
\* token begins with the prefix and that has at least three tokens is a
\* device with the second token as MAC address and the rest as name.
RECURSIVE Listed(_, _, _)
Listed(lines, prefix, status) ==
    IF lines = <<>> THEN <<>>
    ELSE LET tokens == Head(lines).tokens
         IN  (IF Len(tokens) >= 3 /\ startswith(tokens[1], prefix)
              THEN <<[name |-> join(" ", SubSeq(tokens, 3, Len(tokens))),
                      mac_address |-> tokens[2], status |-> status]>>
              ELSE <<>>) \o Listed(Tail(lines), prefix, status)

NameMacStatus(list) ==
    [i \in 1..Len(list) |-> [name |-> list[i].name, mac_address |-> list[i].mac_address,
                             status |-> list[i].status]]

SampleControllerLine == Line("", " ", <<"Controller", "AA:BB:CC:DD:EE:FF", "MyPhone">>)

\* C16: on Linux, with both bluetoothctl runs completed, detect_devices()
\* gives one device per `Controller <MAC> <name...>` line of the controller
\* listing (status Enabled) followed by one device per `Device <MAC>
\* <name...>` line of the paired listing (status Paired), each with the
\* second token as MAC address and the remaining tokens joined as name, all of
\* type Bluetooth, and nothing for any other line; the one line
\* `Controller AA:BB:CC:DD:EE:FF MyPhone` gives exactly the device MyPhone,
\* AA:BB:CC:DD:EE:FF, Enabled.
C16_BluetoothctlParsed ==
    Detects("BluetoothDetector", "Linux") =>
        /\ (~probe.list.raised /\ ~probe.paired.raised) =>
              /\ NameMacStatus(out.result.out)
                    = Listed(Listing(probe.list), "Controller", ENABLED_STATUS)
                         \o Listed(Listing(probe.paired), "Device", PAIRED)
              /\ \A i \in 1..Len(out.result.out) :
                    out.result.out[i].device_type = BLUETOOTH
        /\ (probe.list = Completed(0, <<SampleControllerLine>>)
              /\ Listing(probe.paired) = <<>>) =>
              NameMacStatus(out.result.out)
                 = <<[name |-> "MyPhone", mac_address |-> "AA:BB:CC:DD:EE:FF",
                      status |-> ENABLED_STATUS]>>

\* Both listings have a line that is a device and a line that is not, one
\* name has several tokens, and the call gave the controller before the
\* paired device.
C16_Witness ==
    /\ Detects("BluetoothDetector", "Linux")
    /\ Len(Listing(probe.list)) = 2
    /\ Len(Listing(probe.paired)) = 2
    /\ Len(out.result.out) = 2
    /\ out.result.out[1].status = ENABLED_STATUS
    /\ out.result.out[1].name = "hci0 [default]"
    /\ out.result.out[2].status = PAIRED
    /\ out.result.out[2].name = "JBL Flip 5"

\* The Linux lsusb parser was what the USB detector's call came to.
LsusbParsed ==
    /\ Detects("USBWirelessDetector", "Linux")
    /\ ~probe.backend \/ probe.structured.raised
    /\ ~probe.lsusb.raised
    /\ probe.lsusb.returncode = 0

SampleLsusbLine ==
    Line("", " ", <<"Bus", "001", "Device", "004:", "ID", "046d:c52b",
                    "Logitech,", "Inc.", "Unifying", "Receiver">>)

\* The ID token of an lsusb line is vendor:product.
WellFormedId(line) == Len(split(line.tokens[6], ":")) = 2

\* C15: the lsusb line `Bus 001 Device 004: ID 046d:c52b Logitech, Inc.
\* Unifying Receiver` gives a device with vendor_id "046d", product_id "c52b"
\* and type RF Dongle; and every lsusb line whose text from token index 6 on
\* contains "receiver", "dongle" or "unifying" gives an RF Dongle with the IDs
\* of its vendor:product token (in outputs all of whose lines have such a
\* token).
C15_ReceiverLineParsed ==
    (LsusbParsed /\ \A k \in 1..Len(probe.lsusb.lines) : WellFormedId(probe.lsusb.lines[k])) =>
        /\ probe.lsusb.lines = <<SampleLsusbLine>> =>
              /\ Len(out.result.out) = 1
              /\ out.result.out[1].vendor_id = "046d"
              /\ out.result.out[1].product_id = "c52b"
              /\ out.result.out[1].device_type = RF_DONGLE
        /\ \A k \in 1..Len(probe.lsusb.lines) :
              LET tokens == probe.lsusb.lines[k].tokens
                  text == join(" ", SubSeq(tokens, 7, Len(tokens)))
              IN  contains_any(lower(text), {"receiver", "dongle", "unifying"}) =>
                     \E i \in 1..Len(out.result.out) :
                        /\ out.result.out[i].name = text
                        /\ out.result.out[i].device_type = RF_DONGLE
                        /\ out.result.out[i].vendor_id = split(tokens[6], ":")[1]
                        /\ out.result.out[i].product_id = split(tokens[6], ":")[2]

\* The first line of an lsusb output at which the parser's loop is left by an
\* exception: a line with a wireless keyword and an ID token without colon.
Malformed(line) ==
    /\ ~WellFormedId(line)
    /\ contains_any(lower(join(" ", SubSeq(line.tokens, 7, Len(line.tokens)))),
                    {"wireless", "wifi", "bluetooth", "dongle"})

FirstMalformed(lines) ==
    IF \E k \in 1..Len(lines) : Malformed(lines[k])
    THEN CHOOSE k \in 1..Len(lines) :
            Malformed(lines[k]) /\ \A j \in 1..(k - 1) : ~Malformed(lines[j])
    ELSE 0

\* A structured pass was tried and an exception ended it.
StructuredRaised ==
    /\ out.op = "detect_devices"
    /\ probe.kind \in {"USBWirelessDetector", "NetworkWirelessDetector"}
    /\ IF probe.kind = "USBWirelessDetector" THEN probe.backend ELSE probe.psutil
    /\ probe.structured.raised

\* The fallback chain was what the call came to.
FellBack ==
    /\ out.op = "detect_devices"
    /\ probe.kind \in {"USBWirelessDetector", "NetworkWirelessDetector"}
    /\ \/ ~(IF probe.kind = "USBWirelessDetector" THEN probe.backend ELSE probe.psutil)
       \/ probe.structured.raised

\* No detect_devices() call is left by an exception.
DetectIsTotal == out.op = "detect_devices" => ~out.result.raised

\* A command-line probe that fails keeps what was gathered before the failing
\* step: the controllers when the paired-devices run raises, the devices of
\* the lines before the one at which the lsusb loop is left, and what a
\* Windows or macOS try block had appended when it was left.
CommandProbesKeep ==
    /\ (Detects("BluetoothDetector", "Linux") /\ ~probe.list.raised /\ probe.paired.raised) =>
          NameMacStatus(out.result.out)
             = Listed(Listing(probe.list), "Controller", ENABLED_STATUS)
    /\ (LsusbParsed /\ FirstMalformed(probe.lsusb.lines) > 0) =>
          out.result.out
             = USBWirelessDetector_detect_devices(
                  platform,
                  [probe EXCEPT !.backend = FALSE,
                                !.lsusb = Completed(0, SubSeq(probe.lsusb.lines, 1,
                                             FirstMalformed(probe.lsusb.lines) - 1))]).out
    /\ (out.op = "detect_devices" /\ probe.kind = "BluetoothDetector"
          /\ platform \in {"Windows", "Darwin"}) =>
          out.result.out = (IF platform = "Windows" /\ ~probe.wmi THEN <<>>
                            ELSE probe.block.devices)
    /\ (FellBack /\ platform \in {"Windows", "Darwin"}) =>
          out.result.out = (IF platform = "Windows" /\ probe.kind = "USBWirelessDetector"
                                  /\ ~probe.wmi
                            THEN <<>> ELSE probe.block.devices)

\* C13 as amended: every detector's detect_devices() returns a list and never
\* raises, whatever a probing step does; a failing command-line probe keeps
\* the devices gathered before the failing step, whereas a structured pass
\* (USB enumeration, psutil interface listing) that raises has what it
\* gathered discarded: the call returns what it returns when the structured
\* pass is not available, the platform fallback's result.
C13_TotalAndFallsBack ==
    /\ DetectIsTotal
    /\ CommandProbesKeep
    /\ StructuredRaised =>
          out.result
             = (IF probe.kind = "USBWirelessDetector"
                THEN USBWirelessDetector_detect_devices(platform, [probe EXCEPT !.backend = FALSE])
                ELSE NetworkWirelessDetector_detect_devices(platform, [probe EXCEPT !.psutil = FALSE]))

\* The USB enumeration raised after a device was gathered, the lsusb parser
\* ran in its place and was left at a malformed line after it had gathered a
\* device: the call returned that one device.
C13_Witness ==
    /\ Detects("USBWirelessDetector", "Linux")
    /\ StructuredRaised
    /\ Len(probe.structured.devices) >= 1
    /\ ~probe.lsusb.raised
    /\ probe.lsusb.returncode = 0
    /\ FirstMalformed(probe.lsusb.lines) = 2
    /\ ~out.result.raised
    /\ Len(out.result.out) = 1
    /\ out.result.out[1].additional_info = "lsusb"

\* list is a prefix of whole.
StartsWith(whole, list) ==
    Len(list) <= Len(whole) /\ SubSeq(whole, 1, Len(list)) = list

\* C13 as claimed: detect_devices() never raises and the devices gathered
\* before a failing step are still returned, also those a structured pass
\* gathered before it raised.
C13_TotalAndKeepsGathered ==
    /\ DetectIsTotal
    /\ CommandProbesKeep
    /\ StructuredRaised => StartsWith(out.result.out, probe.structured.devices)

\* The words that carry "802.11" and the words that carry "receiver",
\* "dongle" or "unifying", in whatever case; no other word of the vocabulary
\* does, and no keyword has a blank.
Words80211 == {"802.11n", "IEEE802.11AC"}
WordsOfDongles == {"Receiver", "DONGLE", "Unifying"}

Classified == out.op \in {"_classify_device", "_classify_device_by_name"}

\* C17: a name that contains "802.11" and none of "receiver", "dongle",
\* "unifying" (in any case) is classified WiFi Adapter by _classify_device
\* and by _classify_device_by_name, whatever other keywords it contains.
C17_Wifi80211 ==
    (/\ Classified
     /\ \E i \in 1..Len(probe.words) : probe.words[i] \in Words80211
     /\ \A i \in 1..Len(probe.words) : probe.words[i] \notin WordsOfDongles) =>
        out.result = WIFI_ADAPTER

\* The fallback classifier gave WiFi Adapter for a name with "Bluetooth"
\* before "802.11".
C17_Witness ==
    /\ out.op = "_classify_device_by_name"
    /\ probe.product_name = "Bluetooth IEEE802.11AC"
    /\ out.result = WIFI_ADAPTER

\* A detector's enable_device or disable_device was the last call.
SwitchedBy(det) ==
    out.op \in {"enable_device", "disable_device"} /\ out.detector = det

\* C18: the USB detector's enable_device(d) and disable_device(d) return
\* False for every device on every platform, hand no command to the operating
\* system, and leave the device record as it was.
C18_USBSwitchesNothing ==
    SwitchedBy("USBWirelessDetector") =>
        /\ out.result = Return(FALSE)
        /\ out.invoked = <<>>
        /\ held = out.device

\* On Linux the USB detector was asked to enable a WiFi adapter, a device it
\* claims, and answered False.
C18_Witness ==
    /\ SwitchedBy("USBWirelessDetector")
    /\ out.op = "enable_device"
    /\ platform = "Linux"
    /\ out.device.device_type = WIFI_ADAPTER
    /\ ~out.run.raised
    /\ out.result = Return(FALSE)

\* The platforms on which a detector's enable/disable is implemented.
Implemented(det) ==
    CASE det = "BluetoothDetector" -> {"Linux"}
      [] det = "NetworkWirelessDetector" -> {"Linux", "Windows"}
      [] OTHER -> {}

\* C19: enable_device(d) and disable_device(d) of the Bluetooth and Network
\* detectors never raise; they return True exactly when the platform is one
\* with an implementation (Linux for Bluetooth, Linux or Windows for Network)
\* and the subprocess invocation does not raise, whatever its exit status,
\* and False otherwise; this is the answer the manager-level model of the
\* detectors takes from them.
C19_TrueUnlessRunRaises ==
    \A det \in {"BluetoothDetector", "NetworkWirelessDetector"} :
        SwitchedBy(det) =>
            /\ ~out.result.raised
            /\ out.result.out = (platform \in Implemented(det) /\ ~out.run.raised)
            /\ out.result.out
                  = (IF out.op = "enable_device"
                     THEN DetEnable(det, out.device, platform, out.run.raised)
                     ELSE DetDisable(det, out.device, platform, out.run.raised))

\* On Windows netsh was run to enable an interface, ended with a non-zero
\* exit status, and the Network detector answered True.
C19_Witness ==
    /\ SwitchedBy("NetworkWirelessDetector")
    /\ out.op = "enable_device"
    /\ platform = "Windows"
    /\ ~out.run.raised
    /\ out.run.returncode = 1
    /\ out.invoked = <<<<"netsh", "interface", "set", "interface", "wlan0", "enabled">>>>
    /\ out.result = Return(TRUE)

\* The words of the vocabulary by the keyword they carry; "Adapter" carries
\* none.
WordsOfWifi == Words80211 \cup {"WLAN"}
WordsOfBluetooth == {"Bluetooth"}
WordsOfAudio == {"Audio", "Headset"}

\* The name classified has a word of the set.
HasWord(set) == \E i \in 1..Len(probe.words) : probe.words[i] \in set

\* C21 as claimed: _classify_device gives Bluetooth for a name with
\* "bluetooth" and no keyword of the other types and RF Dongle for a name
\* without any keyword, and _classify_device_by_name never gives Bluetooth and
\* gives Unknown Wireless for a name without any keyword.
C21_BluetoothBranchInStructured ==
    /\ out.op = "_classify_device" =>
          /\ (HasWord(WordsOfBluetooth)
                /\ ~HasWord(WordsOfDongles \cup WordsOfWifi \cup WordsOfAudio)) =>
                out.result = BLUETOOTH
          /\ ~HasWord(WordsOfDongles \cup WordsOfWifi \cup WordsOfAudio
                         \cup WordsOfBluetooth) =>
                out.result = RF_DONGLE
    /\ out.op = "_classify_device_by_name" =>
          /\ out.result # BLUETOOTH
          /\ ~HasWord(WordsOfDongles \cup WordsOfWifi \cup WordsOfAudio
                         \cup WordsOfBluetooth) =>
                out.result = UNKNOWN_WIRELESS

\* C21 as amended: the bluetooth branch is in the other classifier.
\* _classify_device_by_name gives Bluetooth for a name with "bluetooth" and no
\* RF-dongle or WiFi keyword and Unknown Wireless for a name without any
\* keyword; _classify_device never gives Bluetooth (nor Unknown Wireless) and
\* gives RF Dongle for a name without a dongle, WiFi or audio keyword, one
\* with "bluetooth" included.
C21_BluetoothBranchInFallback ==
    /\ out.op = "_classify_device_by_name" =>
          /\ (HasWord(WordsOfBluetooth) /\ ~HasWord(WordsOfDongles \cup WordsOfWifi)) =>
                out.result = BLUETOOTH
          /\ ~HasWord(WordsOfDongles \cup WordsOfWifi \cup WordsOfAudio
                         \cup WordsOfBluetooth) =>
                out.result = UNKNOWN_WIRELESS
    /\ out.op = "_classify_device" =>
          /\ out.result \notin {BLUETOOTH, UNKNOWN_WIRELESS}
          /\ ~HasWord(WordsOfDongles \cup WordsOfWifi \cup WordsOfAudio) =>
                out.result = RF_DONGLE

\* The structured classifier gave RF Dongle for "Bluetooth Adapter".
C21_Witness ==
    /\ out.op = "_classify_device"
    /\ probe.product_name = "Bluetooth Adapter"
    /\ out.result = RF_DONGLE

\* An lsusb line that is a well-formed entry of the parser: a vendor:product
\* ID token and a descriptive text with one of the parser's keywords.
WellFormedEntry(line) ==
    /\ Len(line.tokens) >= 6
    /\ WellFormedId(line)
    /\ contains_any(lower(join(" ", SubSeq(line.tokens, 7, Len(line.tokens)))),
                    {"wireless", "wifi", "bluetooth", "dongle"})

\* C22: a malformed entry of an lsusb output is skipped and does not end the
\* probe: every well-formed entry of the output, those after a malformed one
\* included, gives its device.
C22_MalformedEntrySkipped ==
    LsusbParsed =>
        \A k \in 1..Len(probe.lsusb.lines) :
            LET tokens == probe.lsusb.lines[k].tokens
            IN  WellFormedEntry(probe.lsusb.lines[k]) =>
                   \E i \in 1..Len(out.result.out) :
                      /\ out.result.out[i].name = join(" ", SubSeq(tokens, 7, Len(tokens)))
                      /\ out.result.out[i].vendor_id = split(tokens[6], ":")[1]
                      /\ out.result.out[i].product_id = split(tokens[6], ":")[2]

\* detect_devices() was called and the enumeration was made and ran to its
\* end.
EnumerationCompleted ==
    /\ out.op = "detect_devices"
    /\ probe.kind = "usb"
    /\ probe.usb
    /\ usb_backend # None
    /\ ~probe.find_raises

\* The record the except clause of _get_device_info gives.
UnknownUSBWirelessDevice ==
    WirelessDevice("Unknown USB Wireless Device", UNKNOWN_WIRELESS, "USB", None, UNKNOWN,
                   None, None, "error")

\* What an enumeration comes to when the devices whose reading raises give
\* the records placeholder(device).
RECURSIVE Inspected(_, _)
Inspected(usb_devices, raising_gives_placeholder) ==
    IF usb_devices = <<>> THEN <<>>
    ELSE LET device == Head(usb_devices)
         IN  (CASE device.raises_in = "relevance" -> <<>>
                [] device.raises_in = "info" ->
                     IF raising_gives_placeholder THEN <<UnknownUSBWirelessDevice>>
                     ELSE <<>>
                [] OTHER ->
                     IF _is_wireless_device(device) THEN _get_device_info(device)
                     ELSE <<>>)
                \o Inspected(Tail(usb_devices), raising_gives_placeholder)

StructuredMarks == {"pyusb", "error"}
FallbackMarks == {"lsusb", "WMI", "system_profiler"}

\* C24: detect_devices() returns the platform fallback's result, and nothing
\* the structured path gathered, when the usb module is missing, no backend
\* was initialized, or the enumeration raises; when the enumeration runs to
\* its end it returns the structured path's devices and none of the
\* fallback's.
C24_FallbackOrStructured ==
    (out.op = "detect_devices" /\ probe.kind = "usb") =>
        IF ~probe.usb \/ usb_backend = None \/ probe.find_raises
        THEN /\ out.result = _detect_devices_fallback(platform, probe)
             /\ \A i \in 1..Len(out.result.out) :
                   out.result.out[i].additional_info \in FallbackMarks
        ELSE /\ out.result = Return(usb_devices_loop(probe.usb_devices))
             /\ \A i \in 1..Len(out.result.out) :
                   out.result.out[i].additional_info \in StructuredMarks

\* The enumeration gave the receiver and then raised, and the call returned
\* the one device lsusb lists.
C24_Witness ==
    /\ out.op = "detect_devices"
    /\ probe.kind = "usb"
    /\ platform = "Linux"
    /\ usb_backend = "libusb1"
    /\ probe.find_raises
    /\ Len(probe.usb_devices) = 1
    /\ probe.usb_devices[1].product = "Unifying Receiver"
    /\ Len(out.result.out) = 1
    /\ out.result.out[1].additional_info = "lsusb"

\* The first backend whose get_backend() gives an object, 0 if none does.
FirstBackend(answers) ==
    IF \E k \in 1..Len(backends) : answers[k] = "backend"
    THEN CHOOSE k \in 1..Len(backends) :
            answers[k] = "backend" /\ \A j \in 1..(k - 1) : answers[j] # "backend"
    ELSE 0

BackendAsOrdered ==
    /\ (out.op = "__init__" /\ probe.usb) =>
          LET first == FirstBackend(out.answers)
          IN  IF first > 0
              THEN usb_backend = backends[first] /\ out.tried = SubSeq(backends, 1, first)
              ELSE usb_backend = None /\ out.tried = backends
    /\ (out.op = "detect_devices" /\ probe.kind = "usb" /\ usb_backend = None) =>
          out.result = _detect_devices_fallback(platform, probe)

\* C25: at construction (with the usb module) the backends libusb1, libusb0,
\* openusb are tried in this order, the first whose get_backend() gives an
\* object is selected and the later ones are not tried, one that raises or
\* gives None is passed over; with none selected every detect_devices() gives
\* the fallback's result; and the backend of a constructed detector never
\* changes.
C25_FirstBackendKept ==
    /\ []BackendAsOrdered
    /\ [][usb_backend # NotConstructed => usb_backend' = usb_backend]_vars

\* libusb1 raised, libusb0 initialized and was selected, openusb was not
\* tried.
C25_Witness ==
    /\ out.op = "__init__"
    /\ out.answers = <<"raises", "backend", "backend">>
    /\ out.tried = <<"libusb1", "libusb0">>
    /\ usb_backend = "libusb0"

\* system_profiler was run for the kind of data, ended with status 0, and
\* the detector's call is back.
Profiled(kind) ==
    /\ out.op = "detect_devices"
    /\ probe.kind = kind
    /\ ~probe.profiler.raised
    /\ probe.profiler.returncode = 0

Max(S) == CHOOSE i \in S : \A j \in S : i >= j

IsAddressLine(line) == line.tokens # <<>> /\ line.tokens[1] = "Address:"

\* A line that is not blank and has no colon.
IsNameLine(line) ==
    /\ line.tokens # <<>>
    /\ \A k \in 1..Len(line.tokens) : ~contains(line.tokens[k], ":")

\* The name of the address line at i: the nearest of the up to 5 lines before
\* it that is a name line.
NearestName(lines, i) ==
    LET named == {j \in (IF i - 5 > 1 THEN i - 5 ELSE 1)..(i - 1) : IsNameLine(lines[j])}
    IN  IF named = {} THEN "Bluetooth Device" ELSE join(" ", lines[Max(named)].tokens)

RECURSIVE NearestNamed(_, _)
NearestNamed(lines, i) ==
    IF i > Len(lines) THEN <<>>
    ELSE (IF IsAddressLine(lines[i])
          THEN <<[name |-> NearestName(lines, i), status |-> CONNECTED]>>
          ELSE <<>>) \o NearestNamed(lines, i + 1)

NameStatus(list) ==
    [i \in 1..Len(list) |-> [name |-> list[i].name, status |-> list[i].status]]

\* C26: the macOS Bluetooth parser gives one device, status Connected, per
\* line with "Address:", named by the nearest line before it, among the up to
\* 5 lines before it, that is not blank and has no colon, and "Bluetooth
\* Device" when there is none.
C26_NearestNameWins ==
    Profiled("SPBluetoothDataType") =>
        NameStatus(out.result.out) = NearestNamed(probe.profiler.lines, 1)

IsVendorIdLine(line) ==
    Len(line.tokens) >= 3 /\ line.tokens[1] = "Vendor" /\ line.tokens[2] = "ID:"

IsProductIdLine(line) ==
    Len(line.tokens) >= 3 /\ line.tokens[1] = "Product" /\ line.tokens[2] = "ID:"

\* What an ID line gives as ID: the text after the colon.
IdOf(line) == join(" ", SubSeq(line.tokens, 3, Len(line.tokens)))

\* The name of a header line: its text without the colon at the end.
HeaderName(line) ==
    LET text == join(" ", line.tokens) IN SubSeq(text, 1, Len(text) - 1)

\* The type the header's name stands for.
HeaderType(line) == IF line.tokens[1] = "Bluetooth" THEN BLUETOOTH ELSE WIRELESS_AUDIO

\* The wireless headers before line v with no Vendor ID line between them and
\* v: a current device is set at v exactly when there is one.
CurrentAt(lines, v) ==
    {h \in 1..(v - 1) :
        /\ lines[h] \in WirelessHeaders
        /\ \A k \in (h + 1)..(v - 1) : ~IsVendorIdLine(lines[k])}

\* The record of the Vendor ID line v read with a current device set.
EmittedAt(lines, v) ==
    LET h == Max(CurrentAt(lines, v))
        noted == {k \in (h + 1)..(v - 1) : IsProductIdLine(lines[k])}
    IN  [name |-> HeaderName(lines[h]), device_type |-> HeaderType(lines[h]),
         vendor_id |-> IdOf(lines[v]),
         product_id |-> IF noted = {} THEN None ELSE IdOf(lines[Max(noted)])]

RECURSIVE Emitted(_, _)
Emitted(lines, v) ==
    IF v > Len(lines) THEN <<>>
    ELSE (IF IsVendorIdLine(lines[v]) /\ CurrentAt(lines, v) # {}
          THEN <<EmittedAt(lines, v)>> ELSE <<>>) \o Emitted(lines, v + 1)

NameTypeIds(list) ==
    [i \in 1..Len(list) |->
        [name |-> list[i].name, device_type |-> list[i].device_type,
         vendor_id |-> list[i].vendor_id, product_id |-> list[i].product_id]]

\* C27: the macOS USB parser gives a record exactly for each Vendor ID line
\* read while a current device is set, that is, after a header with a
\* wireless keyword with no Vendor ID line in between, so at most one per
\* header and none for ID lines without a current device; the record has the
\* name and type of that header, the vendor ID of the line, and as product ID
\* that of the last Product ID line between the header and the line, None
\* when there is none.
C27_EmittedAtVendorId ==
    Profiled("SPUSBDataType") =>
        NameTypeIds(out.result.out) = Emitted(probe.profiler.lines, 1)

\* A wireless header, its Vendor ID line, and a second Vendor ID line: one
\* record, without product ID.
C27_Witness ==
    /\ Profiled("SPUSBDataType")
    /\ Len(probe.profiler.lines) = 3
    /\ probe.profiler.lines[1] \in WirelessHeaders
    /\ IsVendorIdLine(probe.profiler.lines[2])
    /\ IsVendorIdLine(probe.profiler.lines[3])
    /\ Len(out.result.out) = 1
    /\ out.result.out[1].name = "Wireless Headset"
    /\ out.result.out[1].vendor_id = "0x046d (Logitech Inc.)"
    /\ out.result.out[1].product_id = None

\* C28: manager.enable_device and manager.disable_device never invoke the
\* Network detector's enable_device or disable_device (the USB detector,
\* listed before it, claims the WiFi adapters, and fails); so for a device of
\* type RF Dongle, WiFi Adapter, Wireless Audio or Unknown Wireless they
\* return False and leave the device as it was, on every platform, and only
\* a Bluetooth device has its status changed.
C28_NetworkNeverAsked ==
    last.op \in {"enable", "disable"} =>
        /\ \A k \in 1..Len(last.calls) : last.calls[k].detector # "NetworkWirelessDetector"
        /\ last.device.device_type \in {RF_DONGLE, WIFI_ADAPTER, WIRELESS_AUDIO,
                                        UNKNOWN_WIRELESS} =>
              ~last.success /\ held = last.device
        /\ held.status # last.device.status => last.device.device_type = BLUETOOTH

\* On Linux the manager was asked to enable a disabled WiFi adapter: the USB
\* detector alone was asked, the call returned False and the adapter is still
\* disabled.
C28_Witness ==
    /\ last.op = "enable"
    /\ platform = "Linux"
    /\ last.device.device_type = WIFI_ADAPTER
    /\ last.device.status = DISABLED
    /\ last.calls = <<[detector |-> "USBWirelessDetector", result |-> FALSE]>>
    /\ ~last.success
    /\ held.status = DISABLED

\* The scan threads that have returned from scan_devices().
ScansDone == {t \in ScanThreads : scans[t].pc = "done"}

\* C29: when scan_devices() calls overlap, the collection each call hands to
\* its observers and returns holds exactly the devices that call's own three
\* detectors gave, in order, none of the other call's and none lost; and once
\* both calls have returned the live collection holds exactly one call's
\* devices.
C29_OneScansDevices ==
    /\ \A t \in ScanThreads :
          /\ \A k \in 1..Len(scans[t].notified) : scans[t].notified[k].arg = scans[t].found
          /\ scans[t].returned.kind = "value" => scans[t].returned.value = scans[t].found
    /\ ScansDone = ScanThreads => \E t \in ScanThreads : lists[bound] = scans[t].found

\* The monitoring loops that sample: alive, and not told to stop or gone on
\* after being told.
LoopsRunning ==
    {l \in 1..Len(threads.loops) :
        /\ threads.loops[l].pc # "ended"
        /\ ~threads.loops[l].stopped \/ threads.loops[l].resumed}

\* C30: over any sequence of start_monitoring and stop_monitoring calls at
\* most one monitoring loop runs at a time: start_monitoring while monitoring
\* starts no thread, and a loop stop_monitoring has stopped never passes its
\* test again to sample and call the callbacks after a later start_monitoring.
C30_AtMostOneLoop ==
    /\ Cardinality(LoopsRunning) <= 1
    /\ \A l \in 1..Len(threads.loops) : ~threads.loops[l].resumed

=============================================================================
